---- MODULE Spec2Model ----
(***************************************************************************)
(* Settlement pipeline of motify-backend: the scheduled job                *)
(* app/jobs/process_ready_all.py, the indexer services it drives           *)
(* (app/services/indexer.py), the chain writer                             *)
(* (app/services/chain_writer.py), the store (app/models/db.py) and the    *)
(* settlement contract they talk to.                                       *)
(*                                                                         *)
(* Optional values (Python None) are sets of at most one element: {} is    *)
(* None and {v} is the value v.  The store tables are sets of rows; the    *)
(* single configured contract address is left out of the keys.             *)
(***************************************************************************)
EXTENDS Integers, Sequences, FiniteSets, TLC

\* ------------------------------------------------------------------ bounds
MaxParts == 3
MaxNow == 1
MaxTx == 3
MaxPending == 2
MaxChunk == 2
MaxLen == 4
MaxArchived == 2
MaxRuns == 2

\* ------------------------------------------------------- program constants
PPM_MAX == 1000000
BPS_DIV == 100
SELECT_LIMIT == 2000
GWEI == 10
BPS_MAX == 10000
FEE_BPS_FAIL == 1000
REWARD_BPS == 500

None == {}
Some(v) == {v}

\* ------------------------------------------------------------ pure helpers
\* Python's round(): to the nearest integer, ties to the even neighbour.
\* n / d with d > 0, computed on exact rationals.
RoundHalfEven(n, d) ==
  LET q == n \div d
      r == n % d
  IN  IF 2 * r < d THEN q
      ELSE IF 2 * r > d THEN q + 1
      ELSE IF q % 2 = 0 THEN q ELSE q + 1

Min(a, b) == IF a < b THEN a ELSE b
Max(a, b) == IF a > b THEN a ELSE b

\* a conversion that truncates instead of rounding
ppm_to_bps_Floor(ppm) == ppm \div BPS_DIV

\* _ppm_to_bps: int(round(int(ppm) / 100))
ppm_to_bps(ppm) == RoundHalfEven(ppm, BPS_DIV)

\* ratio_to_ppm: a ratio is None or a rational <<num, den>> with den > 0;
\* r = max(0.0, min(1.0, ratio)); int(round(r * 1_000_000))
ratio_to_ppm(ratio) ==
  IF ratio = None THEN 0
  ELSE LET rr == CHOOSE x \in ratio : TRUE
           num == rr[1]
           den == rr[2]
           cn  == Max(0, Min(den, num))
       IN  RoundHalfEven(cn * PPM_MAX, den)

\* Python slice xs[i:i+c] with 0-based i, for c > 0
Slice(xs, i, c) ==
  SubSeq(xs, i + 1, Min(Len(xs), i + c))

\* range(0, n, step) for step > 0: 0, step, 2*step, ... below n
RangeStarts(n, step) ==
  [k \in 1..((n + step - 1) \div step) |-> (k - 1) * step]

\* a chunking that forgets the last, shorter chunk
Chunking_DropTail(addrs, bps, chunk_size) ==
  IF chunk_size < 0 THEN << >>
  ELSE [k \in 1..(Len(addrs) \div chunk_size) |->
          [participants      |-> Slice(addrs, (k - 1) * chunk_size, chunk_size),
           refundPercentages |-> Slice(bps, (k - 1) * chunk_size, chunk_size)]]

\* declare_results lines 137-140: chunks of addrs/bps.  chunk_size < 0 gives
\* an empty range (no chunk); chunk_size = 0 raises ValueError and is
\* handled by the caller (ChunkingRaises).
Chunking(addrs, bps, chunk_size) ==
  IF chunk_size < 0 THEN << >>
  ELSE LET starts == RangeStarts(Len(addrs), chunk_size)
       IN  [k \in 1..Len(starts) |->
              [participants      |-> Slice(addrs, starts[k], chunk_size),
               refundPercentages |-> Slice(bps, starts[k], chunk_size)]]

ChunkingRaises(chunk_size) == chunk_size = 0

RECURSIVE SeqSum(_)
SeqSum(s) == IF s = << >> THEN 0 ELSE Head(s) + SeqSum(Tail(s))

RECURSIVE Flatten(_)
Flatten(ss) == IF ss = << >> THEN << >> ELSE Head(ss) \o Flatten(Tail(ss))

Range(s) == {s[i] : i \in 1..Len(s)}

\* a set of integers as an ascending sequence
RECURSIVE SortSet(_)
SortSet(S) ==
  IF S = {} THEN << >>
  ELSE LET m == CHOOSE x \in S : \A y \in S : x <= y
       IN  <<m>> \o SortSet(S \ {m})

\* ------------------------------------------------------------------- state
VARIABLES
  now,                    \* int(time.time())
  chain,                  \* settlement contract: challenge id -> challenge
  declCount,              \* per (challenge, participant): successful declarations mined
  mempool,                \* broadcast, not yet mined transactions
  chainNonce,             \* transaction count of the signer account
  receipts,               \* mined transactions: [hash, status]
  txSeq,                  \* number of transactions broadcast so far (hash source)
  chain_challenges,       \* store table chain_challenges
  chain_participants,     \* store table chain_participants
  finished_challenges,    \* store table finished_challenges
  finished_participants,  \* store table finished_participants
  run,                    \* the job process: position and locals of main()
  cp_log,                 \* result of the cache_participants call of the latest step
  partial,                \* challenges with a send aborted after some chunks were confirmed
  fn_in,                  \* input of the function applied on its own (function specifications)
  fn_out                  \* its result

Cids == DOMAIN chain

vars == <<now, chain, declCount, mempool, chainNonce, receipts, txSeq,
          chain_challenges, chain_participants, finished_challenges,
          finished_participants, run, cp_log, partial, fn_in, fn_out>>

chainVars == <<chain, declCount, mempool, chainNonce, receipts>>
pureVars == <<fn_in, fn_out>>
sysVars == <<now, chain, declCount, mempool, chainNonce, receipts, txSeq,
             chain_challenges, chain_participants, finished_challenges,
             finished_participants, run, cp_log, partial>>
storeVars == <<chain_challenges, chain_participants, finished_challenges,
               finished_participants>>

\* ------------------------------------------------------- contract contents
EndTime(c) == Min(c, MaxNow)
Stake(a) == 100 * a

\* challenges 1..n, each with parts participants, nothing declared yet
ChainInit(n, parts) ==
  [c \in 1..n |->
     [challenge_id      |-> c,
      end_time          |-> EndTime(c),
      results_finalized |-> FALSE,
      participants      |->
        [a \in 1..parts |->
           [participant_address |-> a,
            amount              |-> Stake(a),
            refund_percentage   |-> 0,
            result_declared     |-> FALSE]]]]

\* ChainReader.get_all_challenges: one summary per challenge
get_all_challenges ==
  [c \in Cids |->
     [challenge_id      |-> c,
      end_time          |-> chain[c].end_time,
      results_finalized |-> chain[c].results_finalized,
      participant_count |-> Len(chain[c].participants)]]

\* ChainReader.get_challenge_detail
get_challenge_detail(c) == chain[c]

\* ------------------------------------------------------------- store (DAL)
SameChallenge(t, r) == t.challenge_id = r.challenge_id
SameParticipant(t, r) ==
  /\ t.challenge_id = r.challenge_id
  /\ t.participant_address = r.participant_address

\* supabase upsert(items, on_conflict=key): a row with the key is replaced
upsert_chain_challenges(rows) ==
  {t \in chain_challenges : ~ \E r \in rows : SameChallenge(t, r)} \cup rows
\* an insert that ignores the conflict key
upsert_chain_participants_Insert(rows) == chain_participants \cup rows

upsert_chain_participants(rows) ==
  {t \in chain_participants : ~ \E r \in rows : SameParticipant(t, r)} \cup rows
\* an upsert that on conflict appends the new summary to the stored one
upsert_finished_challenges_Append(rows) ==
  {t \in finished_challenges : ~ \E r \in rows : SameChallenge(t, r)}
  \cup {r \in rows : ~ \E t \in finished_challenges : SameChallenge(t, r)}
  \cup {[r EXCEPT !.summary = t.summary \o r.summary] :
          <<t, r>> \in {x \in finished_challenges \X rows : SameChallenge(x[1], x[2])}}

\* an upsert that is answered without having stored anything
upsert_finished_challenges_Lost(rows) == finished_challenges

upsert_finished_challenges(rows) ==
  {t \in finished_challenges : ~ \E r \in rows : SameChallenge(t, r)} \cup rows
upsert_finished_participants(rows) ==
  {t \in finished_participants : ~ \E r \in rows : SameParticipant(t, r)} \cup rows
delete_chain_challenge(c) == {t \in chain_challenges : t.challenge_id # c}
\* a delete without the challenge_id filter
delete_chain_participants_All(c) == {}
delete_chain_participants(c) == {t \in chain_participants : t.challenge_id # c}

IsArchived(c) == \E r \in finished_challenges : r.challenge_id = c

\* list_ready_challenges: cached rows with end_time <= now, not finalized
list_ready_challenges ==
  SortSet({r.challenge_id : r \in {t \in chain_challenges :
                                     t.end_time <= now /\ ~ t.results_finalized}})

\* ------------------------------------------------------ indexer operations
\* fetch_and_cache_ended_challenges lines 37-80: the rows it upserts.
\* arch_fails: the finished_challenges select raised (lines 58-59).
RefreshFiltered(only_ready_to_end) ==
  {c \in Cids : (~ only_ready_to_end)
                  \/ (get_all_challenges[c].end_time <= now
                      /\ ~ get_all_challenges[c].results_finalized)}

RefreshArchivedIds(filtered, exclude_finished, arch_fails) ==
  IF exclude_finished /\ filtered # {} /\ ~ arch_fails
  THEN {c \in filtered : IsArchived(c)}
  ELSE {}

RefreshRows(only_ready_to_end, exclude_finished, arch_fails) ==
  LET filtered == RefreshFiltered(only_ready_to_end)
      archived_ids == RefreshArchivedIds(filtered, exclude_finished, arch_fails)
  IN  {get_all_challenges[c] :
         c \in {x \in filtered : ~ (exclude_finished /\ x \in archived_ids)}}

\* cache_participants lines 103-153: the guard and the rows read from chain
ReadyInCache(c) ==
  \E t \in chain_challenges :
     t.challenge_id = c /\ t.end_time <= now /\ ~ t.results_finalized

ParticipantRows(c) ==
  {[challenge_id        |-> c,
    participant_address |-> p.participant_address,
    amount              |-> p.amount,
    refund_percentage   |-> p.refund_percentage,
    result_declared     |-> p.result_declared] :
     p \in Range(get_challenge_detail(c).participants)}

\* the two guards of cache_participants taken in the other order
cache_participants_ReadyFirst(c) ==
  IF ~ ReadyInCache(c)
  THEN [challenge_id |-> c, participants_indexed |-> 0, skipped |-> TRUE,
        reason |-> "not_ready", contacted |-> FALSE, rows |-> {}]
  ELSE IF IsArchived(c)
  THEN [challenge_id |-> c, participants_indexed |-> 0, skipped |-> TRUE,
        reason |-> "already_archived", contacted |-> FALSE, rows |-> {}]
  ELSE [challenge_id |-> c,
        participants_indexed |-> Cardinality(ParticipantRows(c)),
        skipped |-> FALSE, reason |-> "", contacted |-> TRUE,
        rows |-> ParticipantRows(c)]

cache_participants(c) ==
  IF IsArchived(c)
  THEN [challenge_id |-> c, participants_indexed |-> 0, skipped |-> TRUE,
        reason |-> "already_archived", contacted |-> FALSE, rows |-> {}]
  ELSE IF ~ ReadyInCache(c)
  THEN [challenge_id |-> c, participants_indexed |-> 0, skipped |-> TRUE,
        reason |-> "not_ready", contacted |-> FALSE, rows |-> {}]
  ELSE [challenge_id |-> c,
        participants_indexed |-> Cardinality(ParticipantRows(c)),
        skipped |-> FALSE, reason |-> "", contacted |-> TRUE,
        rows |-> ParticipantRows(c)]

\* ---------------------------------------------------------------- oracle
\* fetch_progress: address -> ratio or None.  The provider functions catch
\* their own errors and answer None for that participant.
TrueRatio(a) ==
  IF a = 1 THEN Some(<<1, 1>>)
  ELSE IF a = 2 THEN Some(<<1, 2>>)
  ELSE IF a = 3 THEN None
  ELSE IF a = 4 THEN Some(<<1, 3>>)
  ELSE Some(<<0, 1>>)

fetch_progress(addrs, oracle_up) ==
  [a \in addrs |-> IF oracle_up THEN TrueRatio(a) ELSE None]

\* ------------------------------------------------------------- prepare_run
Undeclared(table, c) ==
  {t \in table : t.challenge_id = c /\ ~ t.result_declared}

\* lines 200-214: the participant table after the optional cache_participants
PrepareTable(c) ==
  IF Undeclared(chain_participants, c) = {}
  THEN upsert_chain_participants(cache_participants(c).rows)
  ELSE chain_participants

\* the select of lines 188-198 (and 204-213) returns at most SELECT_LIMIT rows
SelectUndeclared(table, c) ==
  LET u == Undeclared(table, c)
  IN  IF Cardinality(u) <= SELECT_LIMIT THEN u
      ELSE CHOOSE rows \in SUBSET u : Cardinality(rows) = SELECT_LIMIT

PrepareParticipants(c) ==
  IF SelectUndeclared(chain_participants, c) # {}
  THEN SelectUndeclared(chain_participants, c)
  ELSE IF cache_participants(c).participants_indexed # 0
  THEN SelectUndeclared(PrepareTable(c), c)
  ELSE {}

PrepareRaises(default_percent_ppm) ==
  ~ (0 <= default_percent_ppm /\ default_percent_ppm <= PPM_MAX)

RowOf(rows, a) == CHOOSE t \in rows : t.participant_address = a

\* prepare_run without the fallback: a missing ratio goes through ratio_to_ppm
prepare_items_NoFallback(c, default_percent_ppm, oracle_up) ==
  LET rows   == PrepareParticipants(c)
      addrs  == SortSet({t.participant_address : t \in rows})
      ratios == fetch_progress(Range(addrs), oracle_up)
  IN  [i \in 1..Len(addrs) |->
         LET ratio == ratios[addrs[i]]
         IN  [user              |-> addrs[i],
              stake_minor_units |-> RowOf(rows, addrs[i]).amount,
              percent_ppm       |-> ratio_to_ppm(ratio),
              progress_ratio    |-> ratio,
              batch_no          |-> None,
              tx_hash           |-> None]]

\* lines 229-243: one item per loaded participant
prepare_items(c, default_percent_ppm, oracle_up) ==
  LET rows   == PrepareParticipants(c)
      addrs  == SortSet({t.participant_address : t \in rows})
      ratios == fetch_progress(Range(addrs), oracle_up)
  IN  [i \in 1..Len(addrs) |->
         LET ratio == ratios[addrs[i]]
         IN  [user              |-> addrs[i],
              stake_minor_units |-> RowOf(rows, addrs[i]).amount,
              percent_ppm       |-> IF ratio # None THEN ratio_to_ppm(ratio)
                                    ELSE default_percent_ppm,
              progress_ratio    |-> ratio,
              batch_no          |-> None,
              tx_hash           |-> None]]

\* ------------------------------------------------------------ job helpers
\* process_ready_all lines 69-79
PendingAddrs(c) ==
  {p.participant_address :
     p \in {q \in Range(get_challenge_detail(c).participants) : ~ q.result_declared}}

DeclaredOnchain(c) ==
  LET IsDeclared(p) == p.result_declared
  IN  SelectSeq(get_challenge_detail(c).participants, IsDeclared)

\* line 82
FilterItems(all_items, pending_addrs) ==
  IF pending_addrs # {}
  THEN LET IsPending(it) == it.user \in pending_addrs
       IN  SelectSeq(all_items, IsPending)
  ELSE all_items

\* _annotate_items_with_batches lines 13-27
CountBefore(chunks, b) ==
  SeqSum([j \in 1..(b - 1) |-> Len(chunks[j].participants)])

\* an annotation that counts batches from 1
annotate_items_with_batches_OneBased(items, chunks, tx_hashes) ==
  [i \in 1..Len(items) |->
     LET bs == {b \in 1..Len(chunks) :
                  /\ CountBefore(chunks, b) < i
                  /\ i <= CountBefore(chunks, b) + Len(chunks[b].participants)}
     IN  IF bs = {} THEN items[i]
         ELSE LET b == CHOOSE x \in bs : TRUE
              IN  [items[i] EXCEPT
                     !.batch_no = Some(b),
                     !.tx_hash  = IF b <= Len(tx_hashes)
                                  THEN Some(tx_hashes[b]) ELSE @]]

annotate_items_with_batches(items, chunks, tx_hashes) ==
  [i \in 1..Len(items) |->
     LET bs == {b \in 1..Len(chunks) :
                  /\ CountBefore(chunks, b) < i
                  /\ i <= CountBefore(chunks, b) + Len(chunks[b].participants)}
     IN  IF bs = {} THEN items[i]
         ELSE LET b == CHOOSE x \in bs : TRUE
              IN  [items[i] EXCEPT
                     !.batch_no = Some(b - 1),
                     !.tx_hash  = IF b <= Len(tx_hashes)
                                  THEN Some(tx_hashes[b]) ELSE @]]

\* lines 116-132
FinishedItems(items_annot, declared_onchain) ==
  LET seen == {it.user : it \in Range(items_annot)}
      NotSeen(p) == p.participant_address \notin seen
      extra == SelectSeq(declared_onchain, NotSeen)
  IN  items_annot \o
      [i \in 1..Len(extra) |->
         [user              |-> extra[i].participant_address,
          stake_minor_units |-> extra[i].amount,
          percent_ppm       |-> extra[i].refund_percentage * BPS_DIV,
          progress_ratio    |-> None,
          batch_no          |-> None,
          tx_hash           |-> None]]

\* an archive decision that does not look at the send flag
AllowArchive_IgnoresSend(send, declared_now, pending_addrs, items) ==
  declared_now \/ (pending_addrs = {}) \/ (pending_addrs # {} /\ items = << >>)

\* lines 137-138
AllowArchive(send, declared_now, pending_addrs, items) ==
  LET no_pending == (pending_addrs = {}) \/ (pending_addrs # {} /\ items = << >>)
  IN  send /\ (declared_now \/ no_pending)

\* archive_and_cleanup lines 320-346: the rows it upserts
ArchiveItem(c, rule, tx_hashes) ==
  [challenge_id |-> c, rule |-> rule, summary |-> tx_hashes]

ArchiveParticipantRows(c, finished_items) ==
  {[challenge_id        |-> c,
    participant_address |-> it.user,
    stake_minor_units   |-> it.stake_minor_units,
    percent_ppm         |-> it.percent_ppm,
    progress_ratio      |-> it.progress_ratio,
    batch_no            |-> it.batch_no,
    tx_hash             |-> it.tx_hash] : it \in Range(finished_items)}

\* ------------------------------------------------------------ environment
\* process_ready_all lines 48-49: SEND_TX and TX_SEND as the environment
\* holds them (None: unset) and the flag main() derives from them
SendEnvValues == {None, Some(""), Some("1"), Some("TRUE"), Some("yes"), Some("0")}
Lower(str) == IF str = "TRUE" THEN "true" ELSE str
Truthy(v) == v # None /\ (CHOOSE x \in v : TRUE) # ""
send_flag(SEND_TX, TX_SEND) ==
  IF Truthy(SEND_TX) THEN CHOOSE x \in SEND_TX : TRUE
  ELSE IF Truthy(TX_SEND) THEN CHOOSE x \in TX_SEND : TRUE
  ELSE "false"
send_enabled(SEND_TX, TX_SEND) ==
  Lower(send_flag(SEND_TX, TX_SEND)) \in {"1", "true", "yes"}

\* the values of `send` the environment can give
SendFlags ==
  {send_enabled(SEND_TX, TX_SEND) :
     SEND_TX \in SendEnvValues, TX_SEND \in SendEnvValues}
ChunkSizes == (0 - 1)..MaxChunk
FallbackChoices == {200000, PPM_MAX + 1}

RunIdle ==
  [pc |-> "idle", cfg |-> None,
   det |-> << >>, ready |-> << >>,
   all_items |-> << >>, items |-> << >>, pending_addrs |-> {},
   declared_onchain |-> << >>, submitted |-> FALSE,
   chunks |-> << >>, k |-> 0, n0 |-> 0, nonce |-> 0, tx_hashes |-> << >>,
   receipts |-> << >>,
   dec_dry_run |-> TRUE, dec_chunks |-> << >>, dec_tx_hashes |-> << >>,
   declared_now |-> FALSE, finished_items |-> << >>, processed |-> << >>,
   listed |-> << >>, exit_code |-> None]

CpNone ==
  [challenge_id |-> 0, participants_indexed |-> 0, skipped |-> FALSE,
   reason |-> "", contacted |-> FALSE, rows |-> {}]

SystemIdle ==
  /\ now = 0
  /\ chain = ChainInit(1, MaxParts)
  /\ declCount = [c \in {1} |-> [a \in 1..MaxParts |-> 0]]
  /\ mempool = {}
  /\ chainNonce = 0
  /\ receipts = {}
  /\ txSeq = 0
  /\ chain_challenges = {}
  /\ chain_participants = {}
  /\ finished_challenges = {}
  /\ finished_participants = {}
  /\ run = RunIdle
  /\ cp_log = CpNone
  /\ partial = {}

Init ==
  /\ SystemIdle
  /\ fn_in = << >>
  /\ fn_out = << >>

\* time passes
Tick ==
  /\ now < MaxNow
  /\ now' = now + 1
  /\ cp_log' = CpNone
  /\ UNCHANGED <<pureVars, partial, chainVars, txSeq, storeVars, run>>

\* ---------------------------------------------------------------- contract
OnchainDeclared(c) ==
  {p.participant_address :
     p \in {q \in Range(chain[c].participants) : q.result_declared}}

\* a contract without the duplicate check: declareResults never reverts
DeclareReverts_Never(c, participants) == FALSE

\* declareResults reverts with "Result already declared for participant"
\* when a listed participant already has a result
DeclareReverts(c, participants) ==
  \E a \in Range(participants) : a \in OnchainDeclared(c)

DeclareApply(c, participants, percentages) ==
  [chain EXCEPT ![c].participants =
     [i \in 1..Len(@) |->
        IF \E j \in 1..Len(participants) : participants[j] = @[i].participant_address
        THEN LET j == CHOOSE x \in 1..Len(participants) :
                        participants[x] = @[i].participant_address
             IN  [@[i] EXCEPT !.result_declared = TRUE,
                              !.refund_percentage = percentages[j]]
        ELSE @[i]]]

\* the job waits for the receipt of this transaction (receipts nobody waits
\* for are not kept)
Awaited(hash) ==
  /\ run.pc = "wait"
  /\ hash = run.tx_hashes[Len(run.tx_hashes)]

\* a broadcast transaction is mined; gas_ok = FALSE is a transaction that
\* runs out of gas.  A reverted transaction has status 0 and changes nothing
\* but the account nonce.
Mine(tx, gas_ok) ==
  /\ tx \in mempool
  /\ tx.nonce = chainNonce
  /\ LET success == gas_ok /\ ~ DeclareReverts(tx.challenge_id, tx.participants)
     IN  /\ chain' = IF success
                     THEN DeclareApply(tx.challenge_id, tx.participants, tx.percentages)
                     ELSE chain
         /\ declCount' = IF success
                         THEN [declCount EXCEPT ![tx.challenge_id] =
                                 [a \in DOMAIN @ |->
                                    IF a \in Range(tx.participants) THEN @[a] + 1 ELSE @[a]]]
                         ELSE declCount
         /\ receipts' = IF Awaited(tx.hash)
                        THEN {[hash |-> tx.hash, status |-> IF success THEN 1 ELSE 0]}
                        ELSE receipts
  /\ chainNonce' = chainNonce + 1
  /\ mempool' = {t \in mempool : t.nonce # tx.nonce}
  /\ cp_log' = CpNone
  /\ UNCHANGED <<pureVars, partial, now, txSeq, storeVars, run>>

\* ------------------------------------------------------ the job: main()
ListReady(table) ==
  SortSet({r.challenge_id : r \in {t \in table :
                                     t.end_time <= now /\ ~ t.results_finalized}})

\* a loop without the per-challenge try: an error entry ends the iteration
NextChallenge_StopsOnError(cfg, entry) ==
  [RunIdle EXCEPT !.pc = "loop",
                  !.cfg = None,
                  !.ready = IF entry.error # {} THEN << >> ELSE Tail(run.ready),
                  !.listed = run.listed,
                  !.processed = Append(run.processed, entry)]

NextChallenge(cfg, entry) ==
  [RunIdle EXCEPT !.pc = "loop",
                  !.cfg = IF Tail(run.ready) = << >> THEN None ELSE cfg,
                  !.ready = Tail(run.ready),
                  !.listed = run.listed,
                  !.processed = Append(run.processed, entry)]

\* lines 153-154: the entry of a challenge whose processing raised holds
\* the challenge id and str(e) only
ErrorEntry(c, msg) ==
  [challenge_id |-> c, error |-> Some(msg), archived |-> FALSE,
   tx_hashes |-> << >>]

DoneEntry(c, archived) ==
  [challenge_id |-> c, error |-> None, archived |-> archived,
   tx_hashes |-> run.dec_tx_hashes]

\* lines 51-52: refresh the cache
JobRefresh(arch_fails) ==
  /\ run.pc = "idle"
  /\ chain_challenges' = upsert_chain_challenges(RefreshRows(TRUE, TRUE, arch_fails))
  /\ run' = [RunIdle EXCEPT !.pc = "details",
                            !.det = ListReady(chain_challenges')]
  /\ cp_log' = CpNone
  /\ UNCHANGED <<pureVars, partial, now, chainVars, txSeq, chain_participants, finished_challenges,
                 finished_participants>>

\* cache_details_for_ready: one cache_participants call
JobCacheDetail ==
  /\ run.pc = "details"
  /\ run.det # << >>
  /\ LET r == cache_participants(Head(run.det))
     IN  /\ chain_participants' = upsert_chain_participants(r.rows)
         /\ cp_log' = r
  /\ run' = [run EXCEPT !.det = Tail(@)]
  /\ UNCHANGED <<pureVars, partial, now, chainVars, txSeq, chain_challenges, finished_challenges,
                 finished_participants>>

\* indexer_cli "index-details": one cache_participants call by the operator
CliIndexDetails(c) ==
  /\ run.pc = "idle"
  /\ LET r == cache_participants(c)
     IN  /\ chain_participants' = upsert_chain_participants(r.rows)
         /\ cp_log' = r
  /\ UNCHANGED <<pureVars, partial, now, chainVars, txSeq, chain_challenges,
                 finished_challenges, finished_participants, run>>

\* line 56
JobList ==
  /\ run.pc = "details"
  /\ run.det = << >>
  /\ run' = [run EXCEPT !.pc = "loop", !.ready = list_ready_challenges,
                        !.listed = list_ready_challenges]
  /\ cp_log' = CpNone
  /\ UNCHANGED <<pureVars, partial, now, chainVars, txSeq, storeVars>>

\* lines 44-49: the controls read from the environment, and whether
\* settings.PRIVATE_KEY is set.  Reading them has no effect, so they are
\* drawn where main() first uses them and kept for the rest of the run.
Controls(send, chunk_size, default_percent_ppm, has_key) ==
  [send |-> send, chunk_size |-> chunk_size,
   default_percent_ppm |-> default_percent_ppm, has_key |-> has_key]

\* a declare_results that never misses its key
KeyMissing_Never(cfg) == FALSE

\* declare_results lines 164-165: RuntimeError when PRIVATE_KEY is not set
KeyMissing(cfg) == ~ cfg.has_key

Cfg == CHOOSE x \in run.cfg : TRUE

\* lines 62-92 and declare_results lines 130-172: prepare, read the chain
\* detail, filter, and enter declare_results when there is something to send
JobBegin(cfg, oracle_up) ==
  /\ run.pc = "loop"
  /\ run.ready # << >>
  /\ run.cfg \in {None, Some(cfg)}
  /\ LET c == Head(run.ready)
         all_items == prepare_items(c, cfg.default_percent_ppm, oracle_up)
         pending == PendingAddrs(c)
         items == FilterItems(all_items, pending)
         addrs == [i \in 1..Len(items) |-> items[i].user]
         bps == [i \in 1..Len(items) |-> ppm_to_bps(items[i].percent_ppm)]
         chunks == Chunking(addrs, bps, cfg.chunk_size)
         base == [run EXCEPT !.cfg = Some(cfg),
                             !.all_items = all_items,
                             !.items = items,
                             !.pending_addrs = pending,
                             !.declared_onchain = DeclaredOnchain(c)]
     IN  IF PrepareRaises(cfg.default_percent_ppm)
         THEN /\ run' = NextChallenge(Some(cfg), ErrorEntry(c, "prepare failed"))
              /\ cp_log' = CpNone
              /\ UNCHANGED chain_participants
         ELSE /\ chain_participants' = PrepareTable(c)
              /\ cp_log' = IF Undeclared(chain_participants, c) = {}
                           THEN cache_participants(c) ELSE CpNone
              /\ IF items # << >> /\ cfg.send
                 THEN IF ChunkingRaises(cfg.chunk_size)
                      THEN run' = NextChallenge(Some(cfg),
                                     ErrorEntry(c, "range() arg 3 must not be zero"))
                      ELSE IF KeyMissing(cfg)
                      THEN run' = NextChallenge(Some(cfg),
                                     ErrorEntry(c, "PRIVATE_KEY not configured"))
                      ELSE IF chunks = << >>
                      THEN run' = [base EXCEPT !.pc = "finish",
                                               !.submitted = TRUE,
                                               !.dec_dry_run = FALSE,
                                               !.declared_now = TRUE]
                      ELSE run' = [base EXCEPT !.pc = "chunk",
                                               !.submitted = TRUE,
                                               !.chunks = chunks,
                                               !.k = 1,
                                               !.n0 = chainNonce,
                                               !.nonce = chainNonce]
                 ELSE run' = [base EXCEPT !.pc = "finish"]
  /\ UNCHANGED <<pureVars, partial, now, chainVars, txSeq, chain_challenges, finished_challenges,
                 finished_participants>>

\* declare_results lines 174-201: build (the node simulates the call), sign
\* and broadcast chunk k; process_ready_all lines 93-110 when the build
\* raises the duplicate-declaration revert
ChunkBroadcast ==
  /\ run.pc = "chunk"
  /\ LET c == Head(run.ready)
         ch == run.chunks[run.k]
     IN  IF DeclareReverts(c, ch.participants)
         THEN /\ run' = IF PendingAddrs(c) = {} /\ Cfg.send
                        THEN [run EXCEPT !.pc = "finish", !.declared_now = FALSE]
                        ELSE NextChallenge(run.cfg,
                               ErrorEntry(c, "Result already declared for participant"))
              /\ UNCHANGED <<mempool, txSeq>>
         ELSE /\ txSeq < MaxTx
              /\ Cardinality(mempool) < MaxPending
              /\ txSeq' = txSeq + 1
              /\ mempool' = mempool \cup
                   {[hash |-> txSeq + 1, nonce |-> run.nonce, challenge_id |-> c,
                     participants |-> ch.participants,
                     percentages |-> ch.refundPercentages]}
              /\ run' = [run EXCEPT !.pc = "wait",
                                    !.tx_hashes = Append(@, txSeq + 1)]
  /\ cp_log' = CpNone
  /\ UNCHANGED <<pureVars, partial, now, chain, declCount, chainNonce, receipts, storeVars>>

\* a loop that signs every chunk with the nonce fetched at line 172
NextNonce_Same(nonce) == nonce

\* line 224
NextNonce(nonce) == nonce + 1

\* a loop that goes on without the receipt of the chunk it broadcast
ReceiptObserved_NoWait(hash) == TRUE

\* line 204: wait_for_transaction_receipt returned
ReceiptObserved(hash) == \E r \in receipts : r.hash = hash

\* the status of the receipt the job waits for (lines 206, 216-222)
ReceiptStatus(hash) ==
  IF \E r \in receipts : r.hash = hash
  THEN (CHOOSE r \in receipts : r.hash = hash).status
  ELSE 0

\* declare_results lines 204-233: the receipt of chunk k arrived
ChunkReceipt ==
  /\ run.pc = "wait"
  /\ ReceiptObserved(run.tx_hashes[Len(run.tx_hashes)])
  /\ run' = IF run.k = Len(run.chunks)
            THEN [run EXCEPT !.pc = "finish",
                             !.nonce = NextNonce(@),
                             !.receipts = Append(@, ReceiptStatus(run.tx_hashes[Len(run.tx_hashes)])),
                             !.dec_dry_run = FALSE,
                             !.dec_chunks = run.chunks,
                             !.dec_tx_hashes = run.tx_hashes,
                             !.declared_now = TRUE]
            ELSE [run EXCEPT !.pc = "chunk", !.nonce = NextNonce(@),
                             !.receipts = Append(@, ReceiptStatus(run.tx_hashes[Len(run.tx_hashes)])),
                             !.k = @ + 1]
  /\ receipts' = {}
  /\ cp_log' = CpNone
  /\ UNCHANGED <<pureVars, partial, now, chain, declCount, mempool, chainNonce, txSeq, storeVars>>

Rule == [type |-> "progress", fallback_percent_ppm |-> Cfg.default_percent_ppm]

\* lines 112-146 and archive_and_cleanup line 326
JobFinish ==
  /\ run.pc = "finish"
  /\ LET c == Head(run.ready)
         items_annot == annotate_items_with_batches(run.items, run.dec_chunks,
                                                    run.dec_tx_hashes)
         finished_items == FinishedItems(items_annot, run.declared_onchain)
     IN  IF AllowArchive(Cfg.send, run.declared_now, run.pending_addrs, run.items)
         THEN /\ finished_challenges' =
                   upsert_finished_challenges({ArchiveItem(c, Rule, run.dec_tx_hashes)})
              /\ run' = [run EXCEPT !.pc = "arch_parts",
                                    !.finished_items = finished_items]
         ELSE /\ run' = NextChallenge(run.cfg, DoneEntry(c, FALSE))
              /\ UNCHANGED finished_challenges
  /\ cp_log' = CpNone
  /\ UNCHANGED <<pureVars, partial, now, chainVars, txSeq, chain_challenges, chain_participants,
                 finished_participants>>

\* archive_and_cleanup lines 330-346
ArchParticipants ==
  /\ run.pc = "arch_parts"
  /\ finished_participants' =
       upsert_finished_participants(ArchiveParticipantRows(Head(run.ready),
                                                           run.finished_items))
  /\ run' = [run EXCEPT !.pc = "arch_delchal"]
  /\ cp_log' = CpNone
  /\ UNCHANGED <<pureVars, partial, now, chainVars, txSeq, chain_challenges, chain_participants,
                 finished_challenges>>

\* line 349
ArchDeleteChallenge ==
  /\ run.pc = "arch_delchal"
  /\ chain_challenges' = delete_chain_challenge(Head(run.ready))
  /\ run' = [run EXCEPT !.pc = "arch_delparts"]
  /\ cp_log' = CpNone
  /\ UNCHANGED <<pureVars, partial, now, chainVars, txSeq, chain_participants, finished_challenges,
                 finished_participants>>

\* lines 351-352 (delete_participants=True) and the job's result entry
ArchDeleteParticipants ==
  /\ run.pc = "arch_delparts"
  /\ chain_participants' = delete_chain_participants(Head(run.ready))
  /\ run' = NextChallenge(run.cfg, DoneEntry(Head(run.ready), TRUE))
  /\ cp_log' = CpNone
  /\ UNCHANGED <<pureVars, partial, now, chainVars, txSeq, chain_challenges, finished_challenges,
                 finished_participants>>

\* the send in progress has had the first k >= 1 of its n > k chunks
\* confirmed on-chain; aborting it now leaves the challenge partly declared
AbortsPartial ==
  /\ run.pc \in {"chunk", "wait"}
  /\ run.k >= 2
  /\ \A j \in 1..(run.k - 1) :
       Range(run.chunks[j].participants) \subseteq OnchainDeclared(Head(run.ready))

\* lines 153-154: a store, oracle or node call of the current challenge
\* raised (a receipt wait that timed out included)
JobError ==
  /\ \/ run.pc = "loop" /\ run.ready # << >>
     \/ run.pc \in {"chunk", "wait", "finish", "arch_parts", "arch_delchal",
                    "arch_delparts"}
  /\ run' = NextChallenge(run.cfg, ErrorEntry(Head(run.ready), "call failed"))
  /\ receipts' = {}
  /\ cp_log' = CpNone
  /\ partial' = IF AbortsPartial THEN partial \cup {Head(run.ready)} ELSE partial
  /\ UNCHANGED <<pureVars, now, chain, declCount, mempool, chainNonce, txSeq, storeVars>>

\* lines 156-162
JobExit ==
  /\ run.pc = "loop"
  /\ run.ready = << >>
  /\ run' = [RunIdle EXCEPT !.exit_code = Some(0), !.listed = run.listed,
                     !.processed = run.processed]
  /\ cp_log' = CpNone
  /\ UNCHANGED <<pureVars, partial, now, chainVars, txSeq, storeVars>>

\* the process is killed, or a call outside the per-challenge try raised
Crash ==
  /\ run.pc \notin {"idle"}
  /\ ~ (run.pc = "loop" /\ run.ready = << >>)
  /\ run' = RunIdle
  /\ receipts' = {}
  /\ cp_log' = CpNone
  /\ partial' = IF AbortsPartial THEN partial \cup {Head(run.ready)} ELSE partial
  /\ UNCHANGED <<pureVars, now, chain, declCount, mempool, chainNonce, txSeq, storeVars>>

Next ==
  \/ Tick
  \/ \E tx \in mempool, gas_ok \in BOOLEAN : Mine(tx, gas_ok)
  \/ \E arch_fails \in BOOLEAN : JobRefresh(arch_fails)
  \/ JobCacheDetail
  \/ \E c \in Cids : CliIndexDetails(c)
  \/ JobList
  \/ \E send \in SendFlags, cs \in ChunkSizes, dp \in FallbackChoices,
        has_key \in BOOLEAN, oracle_up \in BOOLEAN :
          JobBegin(Controls(send, cs, dp, has_key), oracle_up)
  \/ ChunkBroadcast
  \/ ChunkReceipt
  \/ JobFinish
  \/ ArchParticipants
  \/ ArchDeleteChallenge
  \/ ArchDeleteParticipants
  \/ JobError
  \/ JobExit
  \/ Crash

Spec == Init /\ [][Next]_vars

\* ------------------------------------------- the job on two challenges
\* main() on a contract with two ended challenges of one participant each
MultiInit ==
  /\ now = 0
  /\ chain = ChainInit(2, 1)
  /\ declCount = [c \in 1..2 |-> [a \in 1..MaxParts |-> 0]]
  /\ mempool = {}
  /\ chainNonce = 0
  /\ receipts = {}
  /\ txSeq = 0
  /\ chain_challenges = {}
  /\ chain_participants = {}
  /\ finished_challenges = {}
  /\ finished_participants = {}
  /\ run = RunIdle
  /\ cp_log = CpNone
  /\ partial = {}
  /\ fn_in = << >>
  /\ fn_out = << >>

\* one run of the job: it starts once
MultiRefresh(arch_fails) ==
  /\ run.exit_code = None
  /\ run.processed = << >>
  /\ JobRefresh(arch_fails)

MultiNext ==
  \/ Tick
  \/ \E tx \in mempool, gas_ok \in BOOLEAN : Mine(tx, gas_ok)
  \/ \E arch_fails \in BOOLEAN : MultiRefresh(arch_fails)
  \/ JobCacheDetail
  \/ JobList
  \/ \E send \in SendFlags, cs \in ChunkSizes, dp \in FallbackChoices,
        has_key \in BOOLEAN, oracle_up \in BOOLEAN :
          JobBegin(Controls(send, cs, dp, has_key), oracle_up)
  \/ ChunkBroadcast
  \/ ChunkReceipt
  \/ JobFinish
  \/ ArchParticipants
  \/ ArchDeleteChallenge
  \/ ArchDeleteParticipants
  \/ JobError
  \/ JobExit

MultiSpec == MultiInit /\ [][MultiNext]_vars

\* ------------------------------------------------------- fee selection
\* what _fee_params reads: the operator cap MAX_FEE_GWEI (gwei) and the
\* node's answers, each None when the query raises or has no value:
\* eth.max_priority_fee, the last fee_history reward, the latest block's
\* baseFeePerGas and eth.gas_price.  Fees are counted in units of 0.1 gwei
\* (GWEI is one gwei), the smallest amount _fee_params itself introduces.
Val(opt) == CHOOSE x \in opt : TRUE

FeeEnvs ==
  [cap       : {None, Some(1), Some(3)},
   mpf       : {None, Some(GWEI \div 2), Some(2 * GWEI)},
   fee_hist  : {None, Some(GWEI)},
   base_fee  : {None, Some(0), Some(5 * GWEI)},
   gas_price : {None, Some(7 * GWEI)}]

\* a _fee_params that tries the latest block's base fee before the cap
fee_params_BaseFeeFirst(env) ==
  IF env.base_fee # None
  THEN LET priority_fee == IF env.mpf # None THEN Val(env.mpf) ELSE GWEI
       IN  [maxPriorityFeePerGas |-> Some(priority_fee),
            maxFeePerGas         |-> Some(Val(env.base_fee) * 2 + priority_fee),
            gasPrice             |-> None]
  ELSE IF env.cap # None
  THEN [maxPriorityFeePerGas |-> Some(GWEI \div 10),
        maxFeePerGas         |-> Some(Val(env.cap) * GWEI),
        gasPrice             |-> None]
  ELSE [maxPriorityFeePerGas |-> None,
        maxFeePerGas         |-> None,
        gasPrice             |-> env.gas_price]

\* _fee_params lines 32-88; an absent key of the returned dict is None
fee_params(env) ==
  IF env.cap # None
  THEN LET priority == IF env.mpf # None THEN Val(env.mpf)
                       ELSE IF env.fee_hist # None THEN Val(env.fee_hist)
                       ELSE GWEI \div 10
       IN  [maxPriorityFeePerGas |-> Some(priority),
            maxFeePerGas         |-> Some(Val(env.cap) * GWEI),
            gasPrice             |-> None]
  ELSE IF env.base_fee # None
  THEN LET priority_fee == IF env.mpf # None THEN Val(env.mpf) ELSE GWEI
       IN  [maxPriorityFeePerGas |-> Some(priority_fee),
            maxFeePerGas         |-> Some(Val(env.base_fee) * 2 + priority_fee),
            gasPrice             |-> None]
  ELSE [maxPriorityFeePerGas |-> None,
        maxFeePerGas         |-> None,
        gasPrice             |-> env.gas_price]

\* declare_results lines 152-158
fee_mode(fp, cap) ==
  IF fp.maxFeePerGas # None \/ fp.maxPriorityFeePerGas # None
  THEN IF cap # None THEN "eip1559-env" ELSE "eip1559-auto"
  ELSE IF fp.gasPrice # None THEN "legacy-fallback"
  ELSE "unknown"

FeeInit ==
  /\ SystemIdle
  /\ fn_in \in FeeEnvs
  /\ fn_out = << >>

ApplyFeeParams ==
  /\ fn_out = << >>
  /\ fn_out' = [params |-> fee_params(fn_in),
                mode   |-> fee_mode(fee_params(fn_in), fn_in.cap)]
  /\ UNCHANGED <<fn_in, sysVars>>

FeeSpec == FeeInit /\ [][ApplyFeeParams]_vars

\* ------------------------------------------- declare_results on its own
\* declare_results lines 130-135: the address and basis-point arrays
DeclareAddrs(items) == [i \in 1..Len(items) |-> items[i].user]
DeclareBps(items) == [i \in 1..Len(items) |-> ppm_to_bps(items[i].percent_ppm)]

\* item lists handed to declare_results: distinct users, in any order
SamplePpm(a) ==
  IF a = 1 THEN PPM_MAX
  ELSE IF a = 2 THEN 500000
  ELSE IF a = 3 THEN 200000
  ELSE 50 * a

ItemOf(a) ==
  [user |-> a, stake_minor_units |-> Stake(a), percent_ppm |-> SamplePpm(a),
   progress_ratio |-> None, batch_no |-> None, tx_hash |-> None]

ItemLists ==
  {[i \in 1..Len(us) |-> ItemOf(us[i])] :
     us \in {u \in UNION {[1..n -> 1..MaxLen] : n \in 0..MaxLen} :
               \A i, j \in 1..Len(u) : u[i] = u[j] => i = j}}

\* the node as a declare_results call finds it: healthy with the operator
\* cap set, healthy without a cap, answering no fee query at all (with and
\* without the cap), and without a base fee
DeclareFeeEnvs ==
  {[cap |-> Some(3), mpf |-> Some(2 * GWEI), fee_hist |-> Some(GWEI),
    base_fee |-> Some(5 * GWEI), gas_price |-> Some(7 * GWEI)],
   [cap |-> None, mpf |-> Some(2 * GWEI), fee_hist |-> Some(GWEI),
    base_fee |-> Some(5 * GWEI), gas_price |-> Some(7 * GWEI)],
   [cap |-> Some(3), mpf |-> None, fee_hist |-> None,
    base_fee |-> None, gas_price |-> None],
   [cap |-> None, mpf |-> None, fee_hist |-> None,
    base_fee |-> None, gas_price |-> Some(7 * GWEI)],
   [cap |-> None, mpf |-> None, fee_hist |-> None,
    base_fee |-> None, gas_price |-> None]}

\* what the node may answer to the fee queries of a later chunk: the cap is
\* a setting and stays
ChunkFeeEnvs(cap) == {e \in DeclareFeeEnvs : e.cap = cap}

\* lines 176-179: the entry of used_fee_params for a chunk
UsedFee(env) ==
  [params |-> fee_params(env), mode |-> fee_mode(fee_params(env), env.cap)]

DeclareInit ==
  /\ SystemIdle
  /\ fn_in \in [items : ItemLists, chunk_size : ChunkSizes,
                send : BOOLEAN, has_key : BOOLEAN, fee : DeclareFeeEnvs]
  /\ fn_out = << >>

\* declare_results lines 130-159: the payload and the fee preview, or
\* ValueError from range()
DeclarePayload ==
  /\ fn_out = << >>
  /\ fn_out' =
       IF ChunkingRaises(fn_in.chunk_size)
       THEN [stage |-> "raised", chunks |-> << >>, tx_hashes |-> << >>,
             items |-> << >>, fee_preview |-> None, fee_preview_mode |-> None,
             key_read |-> FALSE, nonce_fetched |-> FALSE, broadcast |-> 0,
             fee_envs |-> << >>, used_fee_params |-> << >>, receipts |-> << >>]
       ELSE [stage |-> "payload",
             chunks |-> Chunking(DeclareAddrs(fn_in.items), DeclareBps(fn_in.items),
                                 fn_in.chunk_size),
             tx_hashes |-> << >>, items |-> << >>,
             fee_preview |-> Some(fee_params(fn_in.fee)),
             fee_preview_mode |-> Some(fee_mode(fee_params(fn_in.fee), fn_in.fee.cap)),
             key_read |-> FALSE, nonce_fetched |-> FALSE, broadcast |-> 0,
             fee_envs |-> << >>, used_fee_params |-> << >>, receipts |-> << >>]
  /\ UNCHANGED <<fn_in, sysVars>>

\* lines 161-162: send=False returns the payload and the preview
DeclareDryRun ==
  /\ fn_out # << >>
  /\ fn_out.stage = "payload"
  /\ ~ fn_in.send
  /\ fn_out' = [fn_out EXCEPT !.stage = "dry_run"]
  /\ UNCHANGED <<fn_in, sysVars>>

\* lines 164-165: RuntimeError("PRIVATE_KEY not configured ...")
DeclareNoKey ==
  /\ fn_out # << >>
  /\ fn_out.stage = "payload"
  /\ fn_in.send /\ ~ fn_in.has_key
  /\ fn_out' = [fn_out EXCEPT !.stage = "config_error", !.key_read = TRUE]
  /\ UNCHANGED <<fn_in, sysVars>>

\* a declare_results without the early return of lines 161-162
DeclareSent_IgnoresSend ==
  /\ fn_out # << >>
  /\ fn_out.stage = "payload"
  /\ fn_in.has_key
  /\ \E envs \in [1..Len(fn_out.chunks) -> ChunkFeeEnvs(fn_in.fee.cap)] :
     \E status \in {0, 1} :
       LET hashes == [k \in 1..Len(fn_out.chunks) |-> k]
       IN  fn_out' = [fn_out EXCEPT
                        !.stage = "sent",
                        !.key_read = TRUE,
                        !.nonce_fetched = TRUE,
                        !.broadcast = Len(fn_out.chunks),
                        !.tx_hashes = hashes,
                        !.fee_envs = envs,
                        !.used_fee_params =
                           [k \in 1..Len(fn_out.chunks) |-> UsedFee(envs[k])],
                        !.receipts =
                           [k \in 1..Len(fn_out.chunks) |->
                              [transactionHash |-> k,
                               status |-> IF k = 1 THEN status ELSE 1]],
                        !.items = annotate_items_with_batches(fn_in.items,
                                                              fn_out.chunks, hashes)]
  /\ UNCHANGED <<fn_in, sysVars>>

\* declare_results lines 164-233 with every receipt arriving: chunk k is
\* sent as transaction k with the fee the node's answers of that moment
\* give, and the first transaction may be mined as failed; then
\* process_ready_all line 115 annotates
DeclareSent ==
  /\ fn_out # << >>
  /\ fn_out.stage = "payload"
  /\ fn_in.send /\ fn_in.has_key
  /\ \E envs \in [1..Len(fn_out.chunks) -> ChunkFeeEnvs(fn_in.fee.cap)] :
     \E status \in {0, 1} :
       LET hashes == [k \in 1..Len(fn_out.chunks) |-> k]
       IN  fn_out' = [fn_out EXCEPT
                        !.stage = "sent",
                        !.key_read = TRUE,
                        !.nonce_fetched = TRUE,
                        !.broadcast = Len(fn_out.chunks),
                        !.tx_hashes = hashes,
                        !.fee_envs = envs,
                        !.used_fee_params =
                           [k \in 1..Len(fn_out.chunks) |-> UsedFee(envs[k])],
                        !.receipts =
                           [k \in 1..Len(fn_out.chunks) |->
                              [transactionHash |-> k,
                               status |-> IF k = 1 THEN status ELSE 1]],
                        !.items = annotate_items_with_batches(fn_in.items,
                                                              fn_out.chunks, hashes)]
  /\ UNCHANGED <<fn_in, sysVars>>

DeclareNext == DeclarePayload \/ DeclareDryRun \/ DeclareNoKey \/ DeclareSent

DeclareSpec == DeclareInit /\ [][DeclareNext]_vars

\* ------------------------------------------------- chain record decoders
\* ChainReader decodes what the contract call returns: tuples, read by
\* position.  Python index k is position k + 1 here.
\* get_all_challenges lines 59-84: one record of getAllChallenges
parse_challenge(item) ==
  LET is_new == Len(item) >= 13
  IN  [challenge_id          |-> item[1],
       recipient             |-> item[2],
       start_time            |-> item[3],
       end_time              |-> item[4],
       is_private            |-> item[5],
       name                  |-> IF is_new THEN item[6] ELSE "",
       api_type              |-> IF is_new THEN item[7] ELSE item[6],
       goal_type             |-> IF is_new THEN item[8] ELSE item[7],
       goal_amount           |-> IF is_new THEN item[9] ELSE item[8],
       description           |-> IF is_new THEN item[10] ELSE item[9],
       total_donation_amount |-> IF is_new THEN item[11] ELSE item[10],
       results_finalized     |-> IF is_new THEN item[12] ELSE item[11],
       participant_count     |-> IF is_new THEN item[13] ELSE item[12]]

\* a decoder that reads the amount of a 5-field record where the 4-field
\* record has it
parse_participant_NoInitial(p) ==
  IF Len(p) >= 5
  THEN [participant_address |-> p[1], initial_amount |-> Some(p[2]),
        amount |-> p[2], refund_percentage |-> p[4], result_declared |-> p[5]]
  ELSE [participant_address |-> p[1], initial_amount |-> None,
        amount |-> p[2], refund_percentage |-> p[3], result_declared |-> p[4]]

\* get_challenge_detail lines 126-140; the key initial_amount is absent
\* (None) for a 4-field record
parse_participant(p) ==
  IF Len(p) >= 5
  THEN [participant_address |-> p[1], initial_amount |-> Some(p[2]),
        amount |-> p[3], refund_percentage |-> p[4], result_declared |-> p[5]]
  ELSE [participant_address |-> p[1], initial_amount |-> None,
        amount |-> p[2], refund_percentage |-> p[3], result_declared |-> p[4]]

\* get_challenge_detail lines 111-156: the record of getChallengeById
parse_detail(d) ==
  LET is_new == Len(d) >= 13
      participants_idx == IF is_new THEN 13 ELSE 12
  IN  [challenge_id          |-> d[1],
       recipient             |-> d[2],
       start_time            |-> d[3],
       end_time              |-> d[4],
       is_private            |-> d[5],
       name                  |-> IF is_new THEN d[6] ELSE "",
       api_type              |-> IF is_new THEN d[7] ELSE d[6],
       goal_type             |-> IF is_new THEN d[8] ELSE d[7],
       goal_amount           |-> IF is_new THEN d[9] ELSE d[8],
       description           |-> IF is_new THEN d[10] ELSE d[9],
       total_donation_amount |-> IF is_new THEN d[11] ELSE d[10],
       results_finalized     |-> IF is_new THEN d[12] ELSE d[11],
       participants          |->
          [i \in 1..Len(d[participants_idx]) |->
             parse_participant(d[participants_idx][i])]]

\* the contract's two layouts of one record: the old one has no name
\* (position 6), an old participant no initial amount (position 2)
WithoutName(rec) == SubSeq(rec, 1, 5) \o SubSeq(rec, 7, 13)
WithoutInitial(p) == <<p[1]>> \o SubSeq(p, 3, 5)
OldDetail(d) ==
  SubSeq(d, 1, 5) \o SubSeq(d, 7, 12)
    \o << [i \in 1..Len(d[13]) |-> WithoutInitial(d[13][i])] >>

\* 13-field records as the contract returns them
WideSummaries ==
  {<<id, "0xR", 0, e, priv, name, api, "steps", 5, "d", don, fin, cnt>> :
     id \in {1, 2}, e \in {0, 1}, priv \in BOOLEAN, name \in {"", "run"},
     api \in {"strava", "github"}, don \in {0, 7}, fin \in BOOLEAN,
     cnt \in {0, 2}}

WideParticipants ==
  {<<a, ini, amt, 2500, dec>> :
     a \in {1}, ini \in {100, 300}, amt \in {100, 200}, dec \in BOOLEAN}

WideDetails ==
  {<<1, "0xR", 0, 1, FALSE, name, api, "steps", 5, "d", 7, fin, ps>> :
     name \in {"", "run"}, api \in {"strava", "github"}, fin \in BOOLEAN,
     ps \in UNION {[1..n -> WideParticipants] : n \in 0..2}}

DecodeInit ==
  /\ SystemIdle
  /\ \/ fn_in \in {[kind |-> "summary", rec |-> w] : w \in WideSummaries}
     \/ fn_in \in {[kind |-> "detail", rec |-> w] : w \in WideDetails}
  /\ fn_out = << >>

\* the record decoded in its new and in its old layout
ApplyDecode ==
  /\ fn_out = << >>
  /\ fn_out' = IF fn_in.kind = "summary"
               THEN [wide   |-> parse_challenge(fn_in.rec),
                     narrow |-> parse_challenge(WithoutName(fn_in.rec))]
               ELSE [wide   |-> parse_detail(fn_in.rec),
                     narrow |-> parse_detail(OldDetail(fn_in.rec))]
  /\ UNCHANGED <<fn_in, sysVars>>

DecodeSpec == DecodeInit /\ [][ApplyDecode]_vars

\* ------------------------------------------------ gas limit of a chunk
\* declare_results line 193
FALLBACK_GAS == 1000000

\* the answers of the node to eth_estimateGas, None when the call fails
\* (the transaction would revert, or the node does not answer)
GasEstimates == {None, Some(21000), Some(150000), Some(FALLBACK_GAS), Some(2 * FALLBACK_GAS)}

\* declare_results lines 180-193.  The dict handed to build_transaction
\* has no "gas" key, so build_transaction asks the node for an estimate
\* itself and raises when that fails (the job's handler at
\* process_ready_all.py:84-110 reads the revert reason of that exception);
\* lines 186-193 then overwrite tx["gas"].
tx_gas(GAS_LIMIT, build_estimate, estimate) ==
  IF build_estimate = None
  THEN [raised |-> TRUE, gas |-> None]
  ELSE IF GAS_LIMIT # None
  THEN [raised |-> FALSE, gas |-> GAS_LIMIT]
  ELSE IF estimate # None
  THEN [raised |-> FALSE, gas |-> estimate]
  ELSE [raised |-> FALSE, gas |-> Some(FALLBACK_GAS)]

GasInit ==
  /\ SystemIdle
  /\ fn_in \in [GAS_LIMIT : {None, Some(300000), Some(21000)},
                build_estimate : GasEstimates, estimate : GasEstimates]
  /\ fn_out = << >>

ApplyTxGas ==
  /\ fn_out = << >>
  /\ fn_out' = tx_gas(fn_in.GAS_LIMIT, fn_in.build_estimate, fn_in.estimate)
  /\ UNCHANGED <<fn_in, sysVars>>

GasSpec == GasInit /\ [][ApplyTxGas]_vars

\* ------------------------------------------------- prepare_run on its own
\* an ended challenge of MaxLen participants, the set D of them declared
\* on-chain; the cache has its summary row and either no participant row or
\* one row per participant, a subset of D marked declared (the cache may be
\* older than the chain)
DeclaredChain(D) ==
  [ChainInit(1, MaxLen) EXCEPT ![1].participants =
     [a \in 1..MaxLen |->
        [@[a] EXCEPT !.result_declared = (a \in D),
                     !.refund_percentage =
                        IF a \in D THEN ppm_to_bps(SamplePpm(a)) ELSE 0]]]

CachedRows(Dc) ==
  {[challenge_id |-> 1, participant_address |-> a, amount |-> Stake(a),
    refund_percentage |-> IF a \in Dc THEN ppm_to_bps(SamplePpm(a)) ELSE 0,
    result_declared |-> (a \in Dc)] : a \in 1..MaxLen}

PrepareInit ==
  /\ now = EndTime(1)
  /\ \E D \in SUBSET (1..MaxLen) :
       /\ chain = DeclaredChain(D)
       /\ declCount = [c \in {1} |-> [a \in 1..MaxLen |-> IF a \in D THEN 1 ELSE 0]]
       /\ \/ chain_participants = {}
          \/ \E Dc \in SUBSET D : chain_participants = CachedRows(Dc)
  /\ chain_challenges = {get_all_challenges[1]}
  /\ mempool = {}
  /\ chainNonce = 0
  /\ receipts = {}
  /\ txSeq = 0
  /\ finished_challenges = {}
  /\ finished_participants = {}
  /\ run = RunIdle
  /\ cp_log = CpNone
  /\ partial = {}
  /\ fn_in = << >>
  /\ fn_out = << >>

\* prepare_run lines 178-249, called with a fallback and an oracle state
PrepareRun(default_percent_ppm, oracle_up) ==
  /\ fn_out = << >>
  /\ fn_in' = [default_percent_ppm |-> default_percent_ppm, oracle_up |-> oracle_up]
  /\ IF PrepareRaises(default_percent_ppm)
     THEN /\ fn_out' = [raised |-> TRUE, items |-> << >>]
          /\ UNCHANGED <<chain_participants, cp_log>>
     ELSE /\ fn_out' = [raised |-> FALSE,
                        items |-> prepare_items(1, default_percent_ppm, oracle_up)]
          /\ chain_participants' = PrepareTable(1)
          /\ cp_log' = IF Undeclared(chain_participants, 1) = {}
                       THEN cache_participants(1) ELSE CpNone
  /\ UNCHANGED <<now, chainVars, txSeq, chain_challenges, finished_challenges,
                 finished_participants, run, partial>>

PrepareNext ==
  \E dp \in FallbackChoices, oracle_up \in BOOLEAN : PrepareRun(dp, oracle_up)

PrepareSpec == PrepareInit /\ [][PrepareNext]_vars

\* ---------------------------------------------------- _ppm_to_bps on its own
ConvInit ==
  /\ SystemIdle
  /\ fn_in \in 0..PPM_MAX
  /\ fn_out = << >>

ApplyPpmToBps ==
  /\ fn_out = << >>
  /\ fn_out' = <<ppm_to_bps(fn_in)>>
  /\ UNCHANGED <<fn_in, sysVars>>

ConvSpec == ConvInit /\ [][ApplyPpmToBps]_vars

\* ------------------------------------------ archive_and_cleanup on its own
\* archive_and_cleanup called for one of two challenges on a store that
\* holds any rows an earlier refresh, caching or archive can have left:
\* the four DAL calls of lines 319-352 one by one, the process killed
\* between two of them, and the same call made again.
ArchIds == 1..2
ArchAddrs == 1..MaxArchived
archIdleVars == <<now, chain, declCount, mempool, chainNonce, receipts, txSeq,
                  run, cp_log, partial>>

CachedChallengeRow(c) ==
  [challenge_id |-> c, end_time |-> EndTime(c), results_finalized |-> FALSE,
   participant_count |-> MaxArchived]

CachedParticipantRow(c, a) ==
  [challenge_id |-> c, participant_address |-> a, amount |-> Stake(a),
   refund_percentage |-> 0, result_declared |-> FALSE]

\* rows of an earlier archive of challenge c
OldFinishedChallenge(c) ==
  [challenge_id |-> c, rule |-> [type |-> "progress", fallback_percent_ppm |-> 0],
   summary |-> << >>]

OldFinishedParticipant(c, a) ==
  [challenge_id |-> c, participant_address |-> a, stake_minor_units |-> Stake(a),
   percent_ppm |-> 0, progress_ratio |-> None, batch_no |-> None,
   tx_hash |-> None]

\* per challenge no row, the row of participant 1, or the rows of all
AddrChoices == [ArchIds -> {{}, {1}, ArchAddrs}]

\* finished_items: lists of distinct participants
ArchItemLists ==
  {[i \in 1..Len(us) |-> ItemOf(us[i])] :
     us \in {u \in UNION {[1..n -> ArchAddrs] : n \in 0..MaxArchived} :
               \A i, j \in 1..Len(u) : u[i] = u[j] => i = j}}

ArchRule == [type |-> "progress", fallback_percent_ppm |-> 200000]

ArchInit ==
  /\ now = 0
  /\ chain = ChainInit(1, MaxParts)
  /\ declCount = [c \in {1} |-> [a \in 1..MaxParts |-> 0]]
  /\ mempool = {}
  /\ chainNonce = 0
  /\ receipts = {}
  /\ txSeq = 0
  /\ run = RunIdle
  /\ cp_log = CpNone
  /\ partial = {}
  /\ \E cc \in SUBSET ArchIds, fc \in SUBSET ArchIds,
        cp \in AddrChoices, fp \in AddrChoices :
        /\ chain_challenges = {CachedChallengeRow(c) : c \in cc}
        /\ finished_challenges = {OldFinishedChallenge(c) : c \in fc}
        /\ chain_participants =
             UNION {{CachedParticipantRow(c, a) : a \in cp[c]} : c \in ArchIds}
        /\ finished_participants =
             UNION {{OldFinishedParticipant(c, a) : a \in fp[c]} : c \in ArchIds}
  /\ \E id \in ArchIds, its \in ArchItemLists, del \in BOOLEAN,
        txs \in {<< >>, <<7>>} :
        fn_in = [challenge_id |-> id, finished_items |-> its,
                 delete_participants |-> del, tx_hashes |-> txs,
                 store0 |-> <<chain_challenges, chain_participants,
                              finished_challenges, finished_participants>>]
  /\ fn_out = [pc |-> "archive", runs |-> 1, crashes |-> 0]

\* lines 319-326
AcUpsertChallenge ==
  /\ fn_out.pc = "archive"
  /\ finished_challenges' =
       upsert_finished_challenges({ArchiveItem(fn_in.challenge_id, ArchRule,
                                               fn_in.tx_hashes)})
  /\ fn_out' = [fn_out EXCEPT !.pc = "participants"]
  /\ UNCHANGED <<fn_in, archIdleVars, chain_challenges, chain_participants,
                 finished_participants>>

\* lines 328-346
AcUpsertParticipants ==
  /\ fn_out.pc = "participants"
  /\ finished_participants' =
       IF fn_in.finished_items # << >>
       THEN upsert_finished_participants(
              ArchiveParticipantRows(fn_in.challenge_id, fn_in.finished_items))
       ELSE finished_participants
  /\ fn_out' = [fn_out EXCEPT !.pc = "delete_challenge"]
  /\ UNCHANGED <<fn_in, archIdleVars, chain_challenges, chain_participants,
                 finished_challenges>>

\* line 349
AcDeleteChallenge ==
  /\ fn_out.pc = "delete_challenge"
  /\ chain_challenges' = delete_chain_challenge(fn_in.challenge_id)
  /\ fn_out' = [fn_out EXCEPT !.pc = "delete_participants"]
  /\ UNCHANGED <<fn_in, archIdleVars, chain_participants, finished_challenges,
                 finished_participants>>

\* lines 350-361
AcDeleteParticipants ==
  /\ fn_out.pc = "delete_participants"
  /\ chain_participants' =
       IF fn_in.delete_participants
       THEN delete_chain_participants(fn_in.challenge_id)
       ELSE chain_participants
  /\ fn_out' = [fn_out EXCEPT !.pc = "returned"]
  /\ UNCHANGED <<fn_in, archIdleVars, chain_challenges, finished_challenges,
                 finished_participants>>

\* the process dies between two DAL calls and the call is made again
AcCrashRerun ==
  /\ fn_out.pc \in {"participants", "delete_challenge", "delete_participants"}
  /\ fn_out.runs < MaxRuns
  /\ fn_out' = [pc |-> "archive", runs |-> fn_out.runs + 1,
                crashes |-> fn_out.crashes + 1]
  /\ UNCHANGED <<fn_in, sysVars>>

\* the call is made again after it returned
AcRerun ==
  /\ fn_out.pc = "returned"
  /\ fn_out.runs < MaxRuns
  /\ fn_out' = [fn_out EXCEPT !.pc = "archive", !.runs = @ + 1]
  /\ UNCHANGED <<fn_in, sysVars>>

ArchNext ==
  \/ AcUpsertChallenge
  \/ AcUpsertParticipants
  \/ AcDeleteChallenge
  \/ AcDeleteParticipants
  \/ AcCrashRerun
  \/ AcRerun

ArchSpec == ArchInit /\ [][ArchNext]_vars

\* ------------------------------------- the argument checks of the indexer
\* prepare_run, cache_participants and archive_and_cleanup called with any
\* challenge id and fallback on a store that holds challenge 1 or not.
BoundaryOps == {"prepare_run", "cache_participants", "archive_and_cleanup"}
BoundaryIds == {0 - 1, 0, 1}
BoundaryPpms == {0 - 1, 0, 200000, PPM_MAX, PPM_MAX + 1}

\* a prepare_run that checks the challenge id only
RejectsInput_IdOnly(op, challenge_id, default_percent_ppm) == challenge_id < 0

\* the ValueError checks: indexer.py lines 96-97, 179-182, 312-313
RejectsInput(op, challenge_id, default_percent_ppm) ==
  \/ challenge_id < 0
  \/ op = "prepare_run" /\ ~ (0 <= default_percent_ppm /\ default_percent_ppm <= PPM_MAX)

BoundaryInit ==
  /\ now = EndTime(1)
  /\ chain = ChainInit(1, MaxParts)
  /\ declCount = [c \in {1} |-> [a \in 1..MaxParts |-> 0]]
  /\ mempool = {}
  /\ chainNonce = 0
  /\ receipts = {}
  /\ txSeq = 0
  /\ run = RunIdle
  /\ cp_log = CpNone
  /\ partial = {}
  /\ chain_challenges \in {{}, {get_all_challenges[1]}}
  /\ chain_participants \in {{}, ParticipantRows(1)}
  /\ finished_challenges \in {{}, {OldFinishedChallenge(1)}}
  /\ finished_participants = {}
  /\ \E op \in BoundaryOps, id \in BoundaryIds, ppm \in BoundaryPpms :
        fn_in = [op |-> op, challenge_id |-> id, default_percent_ppm |-> ppm,
                 store0 |-> <<chain_challenges, chain_participants,
                              finished_challenges, finished_participants>>]
  /\ fn_out = << >>

\* the call: ValueError before SupabaseDAL.from_env(), else the store calls
\* of the function (io: the function went past its argument checks)
BoundaryCall ==
  /\ fn_out = << >>
  /\ LET c == fn_in.challenge_id
     IN  IF RejectsInput(fn_in.op, c, fn_in.default_percent_ppm)
         THEN /\ fn_out' = [raised |-> "ValueError", io |-> FALSE]
              /\ UNCHANGED storeVars
         ELSE /\ fn_out' = [raised |-> "", io |-> TRUE]
              /\ chain_participants' =
                   IF fn_in.op = "prepare_run" THEN PrepareTable(c)
                   ELSE IF fn_in.op = "cache_participants"
                   THEN upsert_chain_participants(cache_participants(c).rows)
                   ELSE delete_chain_participants(c)
              /\ chain_challenges' =
                   IF fn_in.op = "archive_and_cleanup"
                   THEN delete_chain_challenge(c) ELSE chain_challenges
              /\ finished_challenges' =
                   IF fn_in.op = "archive_and_cleanup"
                   THEN upsert_finished_challenges({ArchiveItem(c, ArchRule, << >>)})
                   ELSE finished_challenges
              /\ UNCHANGED finished_participants
  /\ UNCHANGED <<fn_in, now, chainVars, txSeq, run, cp_log, partial>>

BoundarySpec == BoundaryInit /\ [][BoundaryCall]_vars

\* ------------------------------------------------- the upserts on their own
\* Any sequence of the four SupabaseDAL upserts (db.py lines 19-54) on an
\* empty store.  A batch is a list of rows with distinct keys, as every
\* caller builds it; the first key of each table has two versions of its
\* row, the other keys one.
ChallengeKeys == {1, 2}
ParticipantKeys == {<<1, 1>>, <<1, 2>>, <<2, 1>>}

ChainChallengeRows ==
  UNION {{[CachedChallengeRow(c) EXCEPT !.results_finalized = f] :
            f \in {FALSE, c = 1}} : c \in ChallengeKeys}

ChainParticipantRows ==
  UNION {{[CachedParticipantRow(k[1], k[2]) EXCEPT !.result_declared = d] :
            d \in {FALSE, k = <<1, 1>>}} : k \in ParticipantKeys}

FinishedChallengeRows ==
  UNION {{[OldFinishedChallenge(c) EXCEPT !.summary = h] :
            h \in {<< >>, IF c = 1 THEN <<7>> ELSE << >>}} : c \in ChallengeKeys}

FinishedParticipantRows ==
  UNION {{[OldFinishedParticipant(k[1], k[2]) EXCEPT !.percent_ppm = p] :
            p \in {0, IF k = <<1, 1>> THEN PPM_MAX ELSE 0}} : k \in ParticipantKeys}

ChallengeBatches(universe) ==
  {b \in SUBSET universe : \A x, y \in b : SameChallenge(x, y) => x = y}

ParticipantBatches(universe) ==
  {b \in SUBSET universe : \A x, y \in b : SameParticipant(x, y) => x = y}

UpsertInit ==
  /\ SystemIdle
  /\ fn_in = << >>
  /\ fn_out = << >>

\* lines 19-27
UpsertChainChallenges(rows) ==
  /\ chain_challenges' = upsert_chain_challenges(rows)
  /\ fn_out' = [table |-> "chain_challenges", rows |-> rows,
                hit |-> \E t \in chain_challenges, r \in rows :
                           SameChallenge(t, r) /\ t # r]
  /\ UNCHANGED <<fn_in, archIdleVars, chain_participants, finished_challenges,
                 finished_participants>>

\* lines 29-36
UpsertChainParticipants(rows) ==
  /\ chain_participants' = upsert_chain_participants(rows)
  /\ fn_out' = [table |-> "chain_participants", rows |-> rows,
                hit |-> \E t \in chain_participants, r \in rows :
                           SameParticipant(t, r) /\ t # r]
  /\ UNCHANGED <<fn_in, archIdleVars, chain_challenges, finished_challenges,
                 finished_participants>>

\* lines 38-45
UpsertFinishedChallenges(rows) ==
  /\ finished_challenges' = upsert_finished_challenges(rows)
  /\ fn_out' = [table |-> "finished_challenges", rows |-> rows,
                hit |-> \E t \in finished_challenges, r \in rows :
                           SameChallenge(t, r) /\ t # r]
  /\ UNCHANGED <<fn_in, archIdleVars, chain_challenges, chain_participants,
                 finished_participants>>

\* lines 47-54
UpsertFinishedParticipants(rows) ==
  /\ finished_participants' = upsert_finished_participants(rows)
  /\ fn_out' = [table |-> "finished_participants", rows |-> rows,
                hit |-> \E t \in finished_participants, r \in rows :
                           SameParticipant(t, r) /\ t # r]
  /\ UNCHANGED <<fn_in, archIdleVars, chain_challenges, chain_participants,
                 finished_challenges>>

UpsertNext ==
  \/ \E rows \in ChallengeBatches(ChainChallengeRows) : UpsertChainChallenges(rows)
  \/ \E rows \in ParticipantBatches(ChainParticipantRows) :
        UpsertChainParticipants(rows)
  \/ \E rows \in ChallengeBatches(FinishedChallengeRows) :
        UpsertFinishedChallenges(rows)
  \/ \E rows \in ParticipantBatches(FinishedParticipantRows) :
        UpsertFinishedParticipants(rows)

UpsertSpec == UpsertInit /\ [][UpsertNext]_vars

\* ------------------------------ fetch_and_cache_ended_challenges on its own
\* Three challenges on the chain, the clock, the contract finalizing an ended
\* challenge, and the refresh as the job calls it (only_ready_to_end = True)
\* and as "index-challenges [--all]" calls it; any of the challenges may have
\* been archived before.
refreshIdleVars == <<declCount, mempool, chainNonce, receipts, txSeq,
                     chain_participants, finished_participants, run, cp_log,
                     partial, fn_in, fn_out>>

RefreshInit ==
  /\ now = 0
  /\ chain = ChainInit(3, 1)
  /\ declCount = [c \in {1} |-> [a \in 1..MaxParts |-> 0]]
  /\ mempool = {}
  /\ chainNonce = 0
  /\ receipts = {}
  /\ txSeq = 0
  /\ chain_challenges = {}
  /\ chain_participants = {}
  /\ \E fc \in SUBSET (1..3) :
        finished_challenges = {OldFinishedChallenge(c) : c \in fc}
  /\ finished_participants = {}
  /\ run = RunIdle
  /\ cp_log = CpNone
  /\ partial = {}
  /\ fn_in = << >>
  /\ fn_out = << >>

\* the contract marks an ended challenge as finalized
Finalize(c) ==
  /\ chain[c].end_time <= now
  /\ ~ chain[c].results_finalized
  /\ chain' = [chain EXCEPT ![c].results_finalized = TRUE]
  /\ UNCHANGED <<now, chain_challenges, finished_challenges, refreshIdleVars>>

\* fetch_and_cache_ended_challenges lines 26-92 with exclude_finished at
\* its default: RuntimeError when reader.get_all_challenges raises (line
\* 37), else the upsert of line 82 and the report of lines 85-92
fetch_and_cache_ended_challenges(only_ready_to_end, arch_fails, read_fails) ==
  IF read_fails
  THEN [raised |-> TRUE, stored |-> chain_challenges, rows |-> {},
        fetched |-> 0, indexed |-> 0, skipped_archived |-> 0]
  ELSE LET filtered == RefreshFiltered(only_ready_to_end)
           rows == RefreshRows(only_ready_to_end, TRUE, arch_fails)
       IN  [raised |-> FALSE,
            stored |-> upsert_chain_challenges(rows),
            rows |-> rows,
            fetched |-> Cardinality(Cids),
            indexed |-> Cardinality(rows),
            skipped_archived |->
               Cardinality(RefreshArchivedIds(filtered, TRUE, arch_fails))]

\* a cache_participants that deletes the cached participants of the
\* challenge when the chain read fails
cache_participants_store_DropsOnFailure(c, read_fails) ==
  IF cache_participants(c).contacted /\ read_fails
  THEN {t \in chain_participants : t.challenge_id # c}
  ELSE upsert_chain_participants(cache_participants(c).rows)

\* cache_participants lines 95-153: chain_participants after the call;
\* reader.get_challenge_detail (line 139) may raise
cache_participants_store(c, read_fails) ==
  IF cache_participants(c).contacted /\ read_fails
  THEN chain_participants
  ELSE upsert_chain_participants(cache_participants(c).rows)

\* indexer_cli lines 66-67 and process_ready_all lines 51-52: one call of
\* fetch_and_cache_ended_challenges
RefreshCall(only_ready_to_end, arch_fails, read_fails) ==
  LET r == fetch_and_cache_ended_challenges(only_ready_to_end, arch_fails, read_fails)
  IN  /\ chain_challenges' = r.stored
      /\ fn_in' = [op |-> "refresh", only_ready_to_end |-> only_ready_to_end,
                   arch_fails |-> arch_fails, read_fails |-> read_fails,
                   challenge_id |-> 0]
      /\ fn_out' = [raised |-> r.raised, rows |-> r.rows, fetched |-> r.fetched,
                    indexed |-> r.indexed, skipped_archived |-> r.skipped_archived,
                    ready |-> {c \in Cids : chain[c].end_time <= now
                                              /\ ~ chain[c].results_finalized},
                    archived |-> {c \in Cids : IsArchived(c)}]
      /\ UNCHANGED <<now, chain, finished_challenges, declCount, mempool,
                     chainNonce, receipts, txSeq, chain_participants,
                     finished_participants, run, cp_log, partial>>

\* indexer_cli index-details and process_ready_all line 54: one call of
\* cache_participants
RefreshCacheParticipants(c, read_fails) ==
  /\ chain_participants' = cache_participants_store(c, read_fails)
  /\ fn_in' = [op |-> "cache_participants", only_ready_to_end |-> FALSE,
               arch_fails |-> FALSE, read_fails |-> read_fails,
               challenge_id |-> c]
  /\ fn_out' = [raised |-> cache_participants(c).contacted /\ read_fails,
                rows |-> {}, fetched |-> 0, indexed |-> 0, skipped_archived |-> 0,
                ready |-> {}, archived |-> {}]
  /\ UNCHANGED <<now, chain, chain_challenges, finished_challenges, declCount,
                 mempool, chainNonce, receipts, txSeq, finished_participants,
                 run, cp_log, partial>>

RefreshNext ==
  \/ Tick
  \/ \E c \in Cids : Finalize(c)
  \/ \E only_ready_to_end \in BOOLEAN, arch_fails \in BOOLEAN, read_fails \in BOOLEAN :
        RefreshCall(only_ready_to_end, arch_fails, read_fails)
  \/ \E c \in Cids, read_fails \in BOOLEAN : RefreshCacheParticipants(c, read_fails)

RefreshSpec == RefreshInit /\ [][RefreshNext]_vars

\* --------------------------------------- the fallback percent on its way in
\* DEFAULT_PERCENT_PPM as the environment holds it (unset or blank, not a
\* number, or an integer) and the three ways it reaches prepare_run.
EnvValues ==
  {[kind |-> "unset", value |-> 0], [kind |-> "junk", value |-> 0]}
  \cup {[kind |-> "int", value |-> v] :
          v \in {0 - 1, 0, 200000, PPM_MAX, PPM_MAX + 1}}

\* config.py lines 114-124: the settings validator
settings_DEFAULT_PERCENT_PPM(env) ==
  IF env.kind # "int" THEN PPM_MAX
  ELSE Max(0, Min(env.value, PPM_MAX))

\* process_ready_all lines 32-44: _int_env("DEFAULT_PERCENT_PPM", 0)
job_default_percent_ppm(env) ==
  IF env.kind # "int" THEN 0 ELSE env.value

\* indexer_cli lines 73 and 80: --default-percent-ppm, else the setting
cli_default_ppm(arg, env) ==
  IF arg # None THEN Val(arg) ELSE settings_DEFAULT_PERCENT_PPM(env)

FallbackInit ==
  /\ SystemIdle
  /\ fn_in \in [path : {"settings", "cli", "job"},
                env  : EnvValues,
                arg  : {None} \cup {Some(e.value) : e \in EnvValues}]
  /\ fn_out = << >>

\* the value handed to prepare_run and whether its check of lines 181-182
\* raises
ApplyFallback ==
  /\ fn_out = << >>
  /\ LET v == IF fn_in.path = "settings"
              THEN settings_DEFAULT_PERCENT_PPM(fn_in.env)
              ELSE IF fn_in.path = "cli"
              THEN cli_default_ppm(fn_in.arg, fn_in.env)
              ELSE job_default_percent_ppm(fn_in.env)
     IN  fn_out' = [passed |-> v, raised |-> PrepareRaises(v)]
  /\ UNCHANGED <<fn_in, sysVars>>

FallbackSpec == FallbackInit /\ [][ApplyFallback]_vars

\* ------------------------------------------------ compute_payouts on its own
\* a compute_payouts that rounds the refund up
compute_payouts_RoundUp(stake_amount, percent_ppm, platform_fee_bps_fail, reward_bps_of_fee) ==
  IF percent_ppm < 0 \/ percent_ppm > PPM_MAX \/ stake_amount < 0
  THEN [raised |-> TRUE, refund_amount |-> 0, fail_amount |-> 0,
        commission_amount |-> 0, charity_amount |-> 0,
        reward_from_commission_amount |-> 0]
  ELSE LET refund == (stake_amount * percent_ppm + PPM_MAX - 1) \div PPM_MAX
           fail == stake_amount - refund
           commission == (fail * platform_fee_bps_fail) \div BPS_MAX
       IN  [raised |-> FALSE, refund_amount |-> refund, fail_amount |-> fail,
            commission_amount |-> commission,
            charity_amount |-> fail - commission,
            reward_from_commission_amount |->
              (commission * reward_bps_of_fee) \div BPS_MAX]

\* payouts.py lines 12-37; raised: one of the two ValueErrors
compute_payouts(stake_amount, percent_ppm, platform_fee_bps_fail, reward_bps_of_fee) ==
  IF percent_ppm < 0 \/ percent_ppm > PPM_MAX \/ stake_amount < 0
  THEN [raised |-> TRUE, refund_amount |-> 0, fail_amount |-> 0,
        commission_amount |-> 0, charity_amount |-> 0,
        reward_from_commission_amount |-> 0]
  ELSE LET refund == (stake_amount * percent_ppm) \div PPM_MAX
           fail == stake_amount - refund
           commission == (fail * platform_fee_bps_fail) \div BPS_MAX
       IN  [raised |-> FALSE, refund_amount |-> refund, fail_amount |-> fail,
            commission_amount |-> commission,
            charity_amount |-> fail - commission,
            reward_from_commission_amount |->
              (commission * reward_bps_of_fee) \div BPS_MAX]

\* stakes small enough for stake * ppm to stay within 32 bits
PayoutStakes == {0 - 1, 0, 1, 3, 123, 999, 2000}
PayoutPpms ==
  {0 - 1, 0, 1, 333333, 500000, 900000, PPM_MAX - 1, PPM_MAX, PPM_MAX + 1}

PayoutInit ==
  /\ SystemIdle
  /\ fn_in \in [stake : PayoutStakes, ppm : PayoutPpms,
                fee_bps : {0, FEE_BPS_FAIL, BPS_MAX},
                reward_bps : {0, REWARD_BPS, BPS_MAX}]
  /\ fn_out = << >>

ApplyComputePayouts ==
  /\ fn_out = << >>
  /\ fn_out' = compute_payouts(fn_in.stake, fn_in.ppm, fn_in.fee_bps,
                               fn_in.reward_bps)
  /\ UNCHANGED <<fn_in, sysVars>>

PayoutSpec == PayoutInit /\ [][ApplyComputePayouts]_vars

\* ------------------------------------------------------------------ claims
DeclaredAddrsRead == {p.participant_address : p \in Range(run.declared_onchain)}
SubmittedAddrs == {it.user : it \in Range(run.items)}

C2_NeverResubmitDeclared ==
  run.submitted => SubmittedAddrs \cap DeclaredAddrsRead = {}

\* C3: once a send was aborted after the first k of its n chunks were
\* confirmed, a later run with send enabled (and a chunk size of at least 1)
\* that archives the challenge leaves every participant declared on-chain:
\* the state the resumed run is to end in.
C3_ResumedEndsFullyDeclared ==
  [][\A c \in partial :
       (/\ ~ IsArchived(c) /\ IsArchived(c)'
        /\ run.cfg # None /\ Cfg.send /\ Cfg.chunk_size >= 1)
         => \A i \in 1..Len(chain[c].participants) :
              chain[c].participants[i].result_declared]_vars

\* C4: a refresh never brings an archived challenge back into the cache: a
\* challenge id that is in finished_challenges and not in chain_challenges
\* is not in chain_challenges after any step.
C4_ArchivedNeverUpserted ==
  [][\A c \in Cids :
       (IsArchived(c) /\ ~ \E r \in chain_challenges : r.challenge_id = c)
         => ~ \E r \in chain_challenges' : r.challenge_id = c]_vars

\* C5: archive rows are never mutated after creation: every row of
\* finished_challenges and finished_participants is still there, unchanged,
\* after any step, a second archive of the same challenge included.
C5_ArchiveRowsImmutable ==
  [][/\ finished_challenges \subseteq finished_challenges'
     /\ finished_participants \subseteq finished_participants']_vars

PayloadAddrs == [k \in 1..Len(fn_out.chunks) |-> fn_out.chunks[k].participants]
PayloadBps == [k \in 1..Len(fn_out.chunks) |-> fn_out.chunks[k].refundPercentages]

\* the partition N items / chunk size C is to produce: n = ceil(N/C) chunks
\* ((n-1)*C < N <= n*C), each of at most C items, sizes summing to N, the
\* concatenation in input order, every address in exactly one chunk
ChunksPartition(items, C) ==
  LET N == Len(items)
      n == Len(fn_out.chunks)
  IN  /\ fn_out.stage # "raised"
      /\ (n - 1) * C < N /\ N <= n * C
      /\ \A k \in 1..n : Len(PayloadAddrs[k]) <= C
      /\ \A k \in 1..n : Len(PayloadBps[k]) = Len(PayloadAddrs[k])
      /\ SeqSum([k \in 1..n |-> Len(PayloadAddrs[k])]) = N
      /\ Flatten(PayloadAddrs) = DeclareAddrs(items)
      /\ Flatten(PayloadBps) = DeclareBps(items)
      /\ \A i \in 1..N :
           Cardinality({k \in 1..n : items[i].user \in Range(PayloadAddrs[k])}) = 1

\* C7 (as stated): for every list of N items and every chunk size C,
\* declare_results partitions the arrays into ceil(N/C) chunks of at most C
\* items whose sizes sum to N and whose concatenation is the input.
C7_ChunkingAnySize ==
  fn_out # << >> => ChunksPartition(fn_in.items, fn_in.chunk_size)

\* C7 (amended): the same for every chunk size C >= 1.
C7_ChunkingPositiveSize ==
  (fn_out # << >> /\ fn_in.chunk_size >= 1)
    => ChunksPartition(fn_in.items, fn_in.chunk_size)

\* C7 witness: 3 items with chunk size 2 have given chunks of 2 and 1.
C7_Witness ==
  /\ fn_out # << >>
  /\ fn_out.stage = "payload"
  /\ Len(fn_in.items) = 3 /\ fn_in.chunk_size = 2
  /\ Len(fn_out.chunks) = 2
  /\ Len(fn_out.chunks[2].participants) = 1

\* C8: after a send that carried the items in transactions, the item at
\* 0-based index i has batch_no floor(i / chunk_size), its address is in
\* the chunk of that number, and its tx_hash is that chunk's transaction.
C8_BatchAnnotation ==
  (fn_out # << >> /\ fn_out.stage = "sent" /\ fn_out.tx_hashes # << >>)
    => /\ Len(fn_out.items) = Len(fn_in.items)
       /\ \A i \in 1..Len(fn_in.items) :
            LET b == ((i - 1) \div fn_in.chunk_size) + 1
            IN  /\ fn_out.items[i].user = fn_in.items[i].user
                /\ fn_out.items[i].percent_ppm = fn_in.items[i].percent_ppm
                /\ fn_out.items[i].batch_no = Some(b - 1)
                /\ b \in 1..Len(fn_out.chunks)
                /\ fn_in.items[i].user \in Range(fn_out.chunks[b].participants)
                /\ fn_out.items[i].tx_hash = Some(fn_out.tx_hashes[b])

\* C8 witness: 3 items sent with chunk size 2 carry batch_no 0, 0, 1.
C8_Witness ==
  /\ fn_out # << >>
  /\ fn_out.stage = "sent"
  /\ fn_in.chunk_size = 2
  /\ Len(fn_out.items) = 3
  /\ fn_out.items[1].batch_no = Some(0)
  /\ fn_out.items[2].batch_no = Some(0)
  /\ fn_out.items[3].batch_no = Some(1)
  /\ fn_out.items[3].tx_hash = Some(fn_out.tx_hashes[2])

\* C9: for every integer ppm in [0, 1000000] the basis points
\* round(ppm / 100) are in [0, 10000] and within half a basis point of the
\* exact value: |100 * bps - ppm| <= 50.
C9_BpsWithinHalfPoint ==
  fn_out # << >> =>
    LET bps == fn_out[1]
    IN  /\ bps \in 0..(PPM_MAX \div BPS_DIV)
        /\ BPS_DIV * bps - fn_in <= 50
        /\ fn_in - BPS_DIV * bps <= 50

\* C9 witness: a tie, 250 ppm = 2.5 bps, was converted (to the even 2).
C9_Witness ==
  fn_in = 250 /\ fn_out = <<2>>

C11_EmptyRejectedArraysEqual ==
  fn_out # << >> =>
    /\ fn_in.items = << >> => (fn_out.stage = "raised" /\ fn_out.broadcast = 0)
    /\ fn_out.stage = "sent" =>
         \A k \in 1..Len(fn_out.chunks) :
            /\ Len(fn_out.chunks[k].participants) >= 1
            /\ Len(fn_out.chunks[k].refundPercentages)
                 = Len(fn_out.chunks[k].participants)

\* C12: with send = false declare_results ends by returning (or, for chunk
\* size 0, by the ValueError of range) without having read the signing key,
\* fetched a nonce, signed or broadcast anything, key configured or not, and
\* the chain is as before; what it returns is the chunked payload the send
\* path uses and the fee preview.
C12_DryRunTouchesNothing ==
  (fn_out # << >> /\ ~ fn_in.send) =>
    /\ fn_out.stage \in {"payload", "dry_run", "raised"}
    /\ ~ fn_out.key_read
    /\ ~ fn_out.nonce_fetched
    /\ fn_out.broadcast = 0 /\ fn_out.tx_hashes = << >>
    /\ mempool = {} /\ txSeq = 0 /\ chainNonce = 0
    /\ chain = ChainInit(1, MaxParts)
    /\ fn_out.stage = "dry_run" =>
         /\ fn_out.chunks = Chunking(DeclareAddrs(fn_in.items),
                                     DeclareBps(fn_in.items), fn_in.chunk_size)
         /\ fn_out.fee_preview = Some(fee_params(fn_in.fee))

\* C12 witness: a dry run with a signing key configured has returned the
\* two chunks of three items.
C12_Witness ==
  /\ fn_out # << >>
  /\ fn_out.stage = "dry_run"
  /\ fn_in.has_key /\ ~ fn_in.send
  /\ Len(fn_in.items) = 3 /\ Len(fn_out.chunks) = 2
  /\ fn_out.fee_preview # None

\* the entry the job appended last
LastEntry(r) == r.processed[Len(r.processed)]

\* C13: a run with send = true and no signing key never enters the part of
\* declare_results that fetches the nonce, signs and broadcasts; where the
\* call is made (there are items to send) it ends in the configuration
\* error straight from the start of the challenge, with no transaction
\* created, and the challenge is not archived.
C13_NoKeyConfigError ==
  [][/\ (run'.cfg # None /\ Val(run'.cfg).send /\ ~ Val(run'.cfg).has_key) =>
          /\ run'.pc \notin {"chunk", "wait"}
          /\ run'.tx_hashes = << >>
          /\ run'.pc \in {"finish", "arch_parts", "arch_delchal", "arch_delparts"}
               => run'.items = << >>
     /\ (/\ Len(run'.processed) = Len(run.processed) + 1
         /\ LastEntry(run').error = Some("PRIVATE_KEY not configured")) =>
          /\ run.pc = "loop"
          /\ ~ LastEntry(run').archived
          /\ UNCHANGED <<mempool, txSeq, chainNonce, receipts, chain,
                         finished_challenges, finished_participants,
                         chain_challenges>>]_vars

\* C13 witness: the job recorded the configuration error for challenge 1,
\* which has undeclared participants on-chain and is not in the archive.
C13_Witness ==
  /\ run.processed # << >>
  /\ LastEntry(run).error = Some("PRIVATE_KEY not configured")
  /\ LastEntry(run).challenge_id = 1
  /\ OnchainDeclared(1) = {}
  /\ ~ IsArchived(1)

\* C14: when the send of chunk k >= 2 fails after the earlier chunks were
\* confirmed, the entry the job records for the challenge holds the
\* transaction hashes of those earlier chunks.
C14_EarlierHashesReachResult ==
  [][(/\ run.pc \in {"chunk", "wait"}
      /\ run.k >= 2
      /\ Len(run'.processed) = Len(run.processed) + 1) =>
        \A j \in 1..(run.k - 1) :
           run.tx_hashes[j] \in Range(LastEntry(run').tx_hashes)]_vars

\* C15: with a cap configured _fee_params returns EIP-1559 parameters whose
\* maxFeePerGas is the cap, base fee or not; with no cap and a base fee in
\* the latest block it returns maxFeePerGas = 2 * baseFee + priority and
\* maxPriorityFeePerGas = priority, the priority being the node's
\* suggestion and 1 gwei without one.
C15_FeePriority ==
  fn_out # << >> =>
    LET p == fn_out.params
        priority == IF fn_in.mpf # None THEN Val(fn_in.mpf) ELSE GWEI
    IN  /\ fn_in.cap # None =>
             /\ p.maxFeePerGas = Some(Val(fn_in.cap) * GWEI)
             /\ p.maxPriorityFeePerGas # None
             /\ p.gasPrice = None
             /\ fn_out.mode = "eip1559-env"
        /\ (fn_in.cap = None /\ fn_in.base_fee # None) =>
             /\ p.maxFeePerGas = Some(2 * Val(fn_in.base_fee) + priority)
             /\ p.maxPriorityFeePerGas = Some(priority)
             /\ p.gasPrice = None
             /\ fn_out.mode = "eip1559-auto"

\* C15 witness: a cap of 3 gwei and a base fee of 5 gwei are both present
\* and the cap was returned, which is not what the base-fee rule gives.
C15_Witness ==
  /\ fn_out # << >>
  /\ fn_in.cap = Some(3) /\ fn_in.base_fee = Some(5 * GWEI)
  /\ fn_out.params.maxFeePerGas = Some(3 * GWEI)
  /\ fn_out.params.maxFeePerGas
       # Some(2 * Val(fn_in.base_fee) + Val(fn_out.params.maxPriorityFeePerGas))

\* the declare call of the current challenge raised the duplicate revert
\* and the re-read found no participant pending (lines 96-104)
Reconciled ==
  /\ run.pc = "finish"
  /\ run.chunks # << >>
  /\ ~ run.declared_now

\* C16: after the duplicate revert with nobody left pending the run has
\* sent no transaction for the challenge and goes on to archive it.
C16_SettledStillArchives ==
  Reconciled =>
    /\ run.tx_hashes = << >>
    /\ AllowArchive(Cfg.send, run.declared_now, run.pending_addrs, run.items)

\* C17: the duplicate revert met while participants are still pending is
\* handled by the job (a narrowed retry) and never ends the challenge's
\* processing as an error entry of the run.
C17_RejectionNotHardFailure ==
  \A i \in 1..Len(run.processed) :
     run.processed[i].error # Some("Result already declared for participant")

\* rows of challenge c, and of the other challenges, in a table
OfId(table, c) == {r \in table : r.challenge_id = c}
NotOfId(table, c) == {r \in table : r.challenge_id # c}
ArchUsers == {it.user : it \in Range(fn_in.finished_items)}

\* the archive tables hold no participant row of the challenge for a
\* participant outside finished_items when archive_and_cleanup is called
NoStaleArchiveRows ==
  {r.participant_address : r \in OfId(fn_in.store0[4], fn_in.challenge_id)}
    \subseteq ArchUsers

\* what every archive_and_cleanup(id, ..., delete_participants = true) leaves
ArchivedAndCleaned ==
  /\ OfId(chain_participants, fn_in.challenge_id) = {}
  /\ OfId(chain_challenges, fn_in.challenge_id) = {}
  /\ Cardinality(OfId(finished_challenges, fn_in.challenge_id)) = 1
  /\ ArchUsers \subseteq
       {r.participant_address : r \in OfId(finished_participants, fn_in.challenge_id)}

OtherIdsUntouched ==
  /\ NotOfId(chain_challenges, fn_in.challenge_id)
       = NotOfId(fn_in.store0[1], fn_in.challenge_id)
  /\ NotOfId(chain_participants, fn_in.challenge_id)
       = NotOfId(fn_in.store0[2], fn_in.challenge_id)
  /\ NotOfId(finished_challenges, fn_in.challenge_id)
       = NotOfId(fn_in.store0[3], fn_in.challenge_id)
  /\ NotOfId(finished_participants, fn_in.challenge_id)
       = NotOfId(fn_in.store0[4], fn_in.challenge_id)

\* C18 as stated: once archive_and_cleanup(id, N distinct participants,
\* delete_participants = true) has returned, the store holds no
\* chain_participants and no chain_challenges row of id, one
\* finished_challenges row and exactly N finished_participants rows of id,
\* and the rows of the other challenges are those it held before.
C18_ArchiveFrame ==
  /\ OtherIdsUntouched
  /\ (fn_out.pc = "returned" /\ fn_in.delete_participants) =>
       /\ ArchivedAndCleaned
       /\ Cardinality(OfId(finished_participants, fn_in.challenge_id))
            = Len(fn_in.finished_items)

\* C18 amended: the count of N finished_participants rows holds when the
\* archive held no row of id for a participant outside the N before the
\* call; the rest holds for every call.
C18_ArchiveFrameNoStaleRows ==
  /\ OtherIdsUntouched
  /\ (fn_out.pc = "returned" /\ fn_in.delete_participants) =>
       /\ ArchivedAndCleaned
       /\ NoStaleArchiveRows =>
            Cardinality(OfId(finished_participants, fn_in.challenge_id))
              = Len(fn_in.finished_items)

\* C18 witness: challenge 1 was archived with two participants from a
\* store that cached it, already held an archive row of one of the two,
\* and held rows of challenge 2 in all four tables.
C18_Witness ==
  /\ fn_out.pc = "returned" /\ fn_out.runs = 1
  /\ fn_in.delete_participants
  /\ fn_in.challenge_id = 1
  /\ Len(fn_in.finished_items) = 2
  /\ OfId(fn_in.store0[1], 1) # {} /\ OfId(fn_in.store0[2], 1) # {}
  /\ Cardinality(OfId(fn_in.store0[4], 1)) = 1
  /\ \A t \in 1..4 : OfId(fn_in.store0[t], 2) # {}
  /\ Cardinality(OfId(finished_participants, 1)) = 2

\* the store one uninterrupted archive_and_cleanup leaves, written from the
\* store the first call found
ArchResult ==
  LET id == fn_in.challenge_id
  IN  <<NotOfId(fn_in.store0[1], id),
        IF fn_in.delete_participants THEN NotOfId(fn_in.store0[2], id)
        ELSE fn_in.store0[2],
        NotOfId(fn_in.store0[3], id)
          \cup {ArchiveItem(id, ArchRule, fn_in.tx_hashes)},
        {t \in fn_in.store0[4] :
           ~ (t.challenge_id = id /\ t.participant_address \in ArchUsers)}
          \cup ArchiveParticipantRows(id, fn_in.finished_items)>>

\* C19: whenever archive_and_cleanup returns, on the first call, on a call
\* repeated after it returned or on a call repeated after the process died
\* between two of its steps, the store is the one a single uninterrupted
\* call leaves.
C19_ArchiveIdempotent ==
  fn_out.pc = "returned" =>
    <<chain_challenges, chain_participants, finished_challenges,
      finished_participants>> = ArchResult

\* C19 witness: a call that archived participants and hashes died before
\* its deletes, and the repeated call has returned.
C19_Witness ==
  /\ fn_out.pc = "returned"
  /\ fn_out.runs = 2 /\ fn_out.crashes = 1
  /\ fn_in.finished_items # << >> /\ fn_in.tx_hashes # << >>
  /\ OfId(fn_in.store0[1], fn_in.challenge_id) # {}
  /\ OfId(fn_in.store0[2], fn_in.challenge_id) # {}
  /\ fn_in.delete_participants

\* at most one row per conflict key in each table
UniqueKeys ==
  /\ \A x, y \in chain_challenges : SameChallenge(x, y) => x = y
  /\ \A x, y \in chain_participants : SameParticipant(x, y) => x = y
  /\ \A x, y \in finished_challenges : SameChallenge(x, y) => x = y
  /\ \A x, y \in finished_participants : SameParticipant(x, y) => x = y

\* the table the last upsert wrote, and that upsert applied once more
LastTable ==
  IF fn_out.table = "chain_challenges" THEN chain_challenges
  ELSE IF fn_out.table = "chain_participants" THEN chain_participants
  ELSE IF fn_out.table = "finished_challenges" THEN finished_challenges
  ELSE finished_participants

LastUpsertAgain ==
  IF fn_out.table = "chain_challenges" THEN upsert_chain_challenges(fn_out.rows)
  ELSE IF fn_out.table = "chain_participants"
  THEN upsert_chain_participants(fn_out.rows)
  ELSE IF fn_out.table = "finished_challenges"
  THEN upsert_finished_challenges(fn_out.rows)
  ELSE upsert_finished_participants(fn_out.rows)

\* C20: after any sequence of upserts each table holds at most one row per
\* conflict key; the rows of the last upsert are stored as given, and
\* applying that upsert a second time leaves the table as it is.
C20_UpsertIdempotent ==
  /\ UniqueKeys
  /\ fn_out # << >> =>
       /\ fn_out.rows \subseteq LastTable
       /\ LastUpsertAgain = LastTable

\* C20 witness: an upsert of finished_participants met stored rows with
\* the same key and other fields, and the table holds its three keys.
C20_Witness ==
  /\ fn_out # << >>
  /\ fn_out.table = "finished_participants"
  /\ fn_out.hit
  /\ Cardinality(fn_out.rows) >= 2
  /\ Cardinality(finished_participants) = 3

\* C21: every cached chain_challenges row has results_finalized = false
\* and belongs to a challenge that is not finalized on-chain.
C21_CacheHoldsUnfinalizedOnly ==
  \A t \in chain_challenges :
     /\ ~ t.results_finalized
     /\ ~ chain[t.challenge_id].results_finalized

\* C22: on each driving path the fallback handed to prepare_run lies in
\* 0..1000000 and prepare_run does not reject it.
C22_FallbackClamped ==
  fn_out # << >> =>
    /\ fn_out.passed \in 0..PPM_MAX
    /\ ~ fn_out.raised

\* C23: compute_payouts rejects a ppm outside 0..1000000 and a negative
\* stake; otherwise refund = floor(stake * ppm / 1000000), refund + fail =
\* stake, commission + charity = fail, every amount is >= 0, the reward is
\* at most the commission, ppm 0 refunds nothing and ppm 1000000 the stake.
C23_PayoutsConserveStake ==
  fn_out # << >> =>
    /\ fn_out.raised <=>
         (fn_in.ppm < 0 \/ fn_in.ppm > PPM_MAX \/ fn_in.stake < 0)
    /\ ~ fn_out.raised =>
         /\ fn_out.refund_amount * PPM_MAX <= fn_in.stake * fn_in.ppm
         /\ fn_in.stake * fn_in.ppm - fn_out.refund_amount * PPM_MAX < PPM_MAX
         /\ fn_out.refund_amount + fn_out.fail_amount = fn_in.stake
         /\ fn_out.commission_amount + fn_out.charity_amount = fn_out.fail_amount
         /\ fn_out.refund_amount >= 0 /\ fn_out.fail_amount >= 0
         /\ fn_out.commission_amount >= 0 /\ fn_out.charity_amount >= 0
         /\ fn_out.reward_from_commission_amount >= 0
         /\ fn_out.reward_from_commission_amount <= fn_out.commission_amount
         /\ fn_in.ppm = 0 => fn_out.refund_amount = 0
         /\ fn_in.ppm = PPM_MAX => fn_out.refund_amount = fn_in.stake

\* C23 witness: a stake of 2000 at 90 % with the default fee parameters
\* splits into 1800 refunded, 200 failed, 20 commission, 180 charity and a
\* reward of 1.
C23_Witness ==
  /\ fn_out # << >>
  /\ fn_in = [stake |-> 2000, ppm |-> 900000, fee_bps |-> FEE_BPS_FAIL,
              reward_bps |-> REWARD_BPS]
  /\ fn_out = [raised |-> FALSE, refund_amount |-> 1800, fail_amount |-> 200,
               commission_amount |-> 20, charity_amount |-> 180,
               reward_from_commission_amount |-> 1]

\* the call's transaction of chunk k while it is in the mempool
CallTxs == {tx \in mempool : tx.hash \in Range(run.tx_hashes)}

\* C24: in one declare_results call the nonce fetched at the start stays
\* the base of the call, and the transaction of chunk k (1-based) is
\* signed with that nonce plus k - 1.
C24_NoncesConsecutive ==
  [][/\ (run.pc \in {"chunk", "wait"} /\ run'.pc \in {"chunk", "wait"})
          => run'.n0 = run.n0
     /\ (run.pc = "chunk" /\ run'.pc = "wait") =>
          \E tx \in mempool' :
             /\ tx.hash = run'.tx_hashes[run.k]
             /\ tx \notin mempool
             /\ tx.nonce = run.n0 + (run.k - 1)]_vars

\* C24 witness: the second chunk of a call is in the mempool with the
\* nonce after the one the call fetched.
C24_Witness ==
  /\ run.pc = "wait" /\ run.k = 2
  /\ \E tx \in mempool :
        tx.hash = run.tx_hashes[2] /\ tx.nonce = run.n0 + 1

\* C25: the chunks of a call go out one at a time and in order: when chunk
\* k is about to be signed the receipts of chunks 1..k-1 were observed and
\* no transaction of the call is in flight, and while the call waits only
\* the transaction of chunk k can be in flight.
C25_ChunksSequential ==
  /\ run.pc = "chunk" =>
        /\ Len(run.tx_hashes) = run.k - 1
        /\ Len(run.receipts) = run.k - 1
        /\ CallTxs = {}
  /\ run.pc = "wait" =>
        /\ Len(run.tx_hashes) = run.k
        /\ Len(run.receipts) = run.k - 1
        /\ \A tx \in CallTxs : tx.hash = run.tx_hashes[run.k]
  /\ \A i, j \in 1..Len(run.tx_hashes) : i < j => run.tx_hashes[i] < run.tx_hashes[j]

\* C25 witness: the second chunk is in flight after the first was mined
\* and its receipt observed.
C25_Witness ==
  /\ run.pc = "wait" /\ run.k = 2 /\ Len(run.receipts) = 1
  /\ CallTxs # {}
  /\ \A tx \in mempool : tx.hash # run.tx_hashes[1]

\* C26: once the receipt of chunk j reports a failed transaction
\* (status 0), the call broadcasts no chunk after j.
C26_FailureAbortsRemaining ==
  \A j \in 1..Len(run.receipts) :
     run.receipts[j] = 0 => Len(run.tx_hashes) <= j

\* the fee fields a returned fee dict holds
FeeKeys(fp) ==
  {k \in {"maxPriorityFeePerGas", "maxFeePerGas", "gasPrice"} : fp[k] # None}

\* C27: with no operator cap and no base fee, _fee_params returns a legacy
\* gasPrice and nothing else; the returned dict is never empty.
C27_LegacyGasPrice ==
  (fn_out # << >> /\ fn_in.cap = None /\ fn_in.base_fee = None) =>
     /\ FeeKeys(fn_out.params) = {"gasPrice"}
     /\ fn_out.mode = "legacy-fallback"

\* the tier of _fee_params that answers under the node's answers env
FeeTier(env) ==
  IF env.cap # None THEN "eip1559-env"
  ELSE IF env.base_fee # None THEN "eip1559-auto"
  ELSE "legacy-fallback"

\* C28: a send that returned has one used_fee_params entry, one hash and
\* one receipt per chunk, in chunk order, and every recorded mode is the
\* tier that produced the fee fields the transaction was built with.
C28_FeeAuditPerChunk ==
  (fn_out # << >> /\ fn_out.stage = "sent") =>
     /\ Len(fn_out.used_fee_params) = Len(fn_out.chunks)
     /\ Len(fn_out.tx_hashes) = Len(fn_out.chunks)
     /\ Len(fn_out.receipts) = Len(fn_out.chunks)
     /\ \A k \in 1..Len(fn_out.chunks) :
           /\ fn_out.receipts[k].transactionHash = fn_out.tx_hashes[k]
           /\ fn_out.used_fee_params[k].params = fee_params(fn_out.fee_envs[k])
           /\ FeeKeys(fn_out.used_fee_params[k].params) # {}
           /\ fn_out.used_fee_params[k].mode = FeeTier(fn_out.fee_envs[k])

\* C29: the gas limit of a transaction is the configured constant when
\* one is set, else the node's estimate, else 1,000,000 when the estimate
\* fails; a failing estimate never makes the send raise.
C29_GasLimitFallback ==
  fn_out # << >> =>
     /\ ~ fn_out.raised
     /\ fn_out.gas = IF fn_in.GAS_LIMIT # None THEN fn_in.GAS_LIMIT
                     ELSE IF fn_in.estimate # None THEN fn_in.estimate
                     ELSE Some(FALLBACK_GAS)

\* C30: in a dry run no failing fee or gas query raises: the call returns
\* the payload together with a fee preview that holds a fee, taken from a
\* fallback where the node did not answer.
C30_DryRunFeeFallback ==
  (fn_out # << >> /\ ~ fn_in.send /\ ~ ChunkingRaises(fn_in.chunk_size)) =>
     /\ fn_out.stage \in {"payload", "dry_run"}
     /\ FeeKeys(Val(fn_out.fee_preview)) # {}
     /\ Val(fn_out.fee_preview_mode) = FeeTier(fn_in.fee)

\* C31: a refresh with only_ready_to_end = true upserts exactly the listed
\* challenges that are ended, not finalized and not archived, and reports
\* indexed + skipped_archived = number of ready challenges, indexed <= fetched.
C31_RefreshReport ==
  (fn_in # << >> /\ fn_in.op = "refresh" /\ fn_in.only_ready_to_end
     /\ ~ fn_out.raised) =>
     /\ {r.challenge_id : r \in fn_out.rows} = fn_out.ready \ fn_out.archived
     /\ fn_out.rows \subseteq chain_challenges
     /\ fn_out.indexed + fn_out.skipped_archived = Cardinality(fn_out.ready)
     /\ fn_out.indexed = Cardinality(fn_out.rows)
     /\ fn_out.indexed <= fn_out.fetched

\* C32: a refresh or cache_participants call whose chain read fails raises
\* and leaves the four tables as they were.
C32_FailedReadNoMutation ==
  [][(fn_out' # << >> /\ fn_out'.raised /\ <<fn_in, fn_out>>' # <<fn_in, fn_out>>)
       => UNCHANGED storeVars]_vars

\* C32 witness: a cache_participants call on a cached ready challenge whose
\* participants are cached failed at the chain read, after a refresh.
C32_Witness ==
  /\ fn_in # << >> /\ fn_in.op = "cache_participants" /\ fn_out.raised
  /\ chain_challenges # {} /\ chain_participants # {}

\* the challenges with a row in a table
IdsOf(table) == {t.challenge_id : t \in table}

\* C36: in every state of an archive_and_cleanup call, crashes and repeated
\* calls included, a challenge that was cached or archived when the call
\* began is still cached or archived, and the cache row of the archived
\* challenge is only gone when its finished_challenges row is stored.
C36_ArchiveNeverLoses ==
  /\ \A c \in IdsOf(fn_in.store0[1]) \cup IdsOf(fn_in.store0[3]) :
        c \in IdsOf(chain_challenges) \cup IdsOf(finished_challenges)
  /\ (fn_in.challenge_id \in IdsOf(fn_in.store0[1]) \ IdsOf(chain_challenges))
        => fn_in.challenge_id \in IdsOf(finished_challenges)
  /\ fn_out.pc \in {"delete_challenge", "delete_participants", "returned"}
        => fn_in.challenge_id \in IdsOf(finished_challenges)

\* C36 witness: the call crashed after deleting the cache row of a
\* challenge that was cached and not archived before; the row is archived.
C36_Witness ==
  /\ fn_out.crashes >= 1
  /\ fn_in.challenge_id \in IdsOf(fn_in.store0[1]) \ IdsOf(fn_in.store0[3])
  /\ fn_in.challenge_id \notin IdsOf(chain_challenges)
  /\ fn_in.challenge_id \in IdsOf(finished_challenges)

\* C33: a negative challenge id, and for prepare_run a fallback outside
\* 0..1000000, is answered with ValueError before any store or chain call,
\* and the tables are as they were.
C33_RejectedBeforeIO ==
  (/\ fn_out # << >>
   /\ \/ fn_in.challenge_id < 0
      \/ /\ fn_in.op = "prepare_run"
         /\ fn_in.default_percent_ppm \notin 0..PPM_MAX) =>
     /\ fn_out.raised = "ValueError"
     /\ ~ fn_out.io
     /\ <<chain_challenges, chain_participants, finished_challenges,
          finished_participants>> = fn_in.store0

\* C33 witness: archive_and_cleanup was called with id -1 on a store that
\* holds cache rows, and raised.
C33_Witness ==
  /\ fn_out # << >> /\ fn_out.raised = "ValueError"
  /\ fn_in.op = "archive_and_cleanup" /\ fn_in.challenge_id < 0
  /\ chain_challenges # {} /\ chain_participants # {}

\* the fields the two layouts of a challenge record share
SharedFields ==
  {"challenge_id", "recipient", "start_time", "end_time", "is_private",
   "api_type", "goal_type", "goal_amount", "description",
   "total_donation_amount", "results_finalized"}

\* C34: the decoders read by position for the detected width: the old
\* 12-field record decodes to name = "" and to the fields of the 13-field
\* record otherwise, and a 4-field participant to the same address,
\* amount, refund percentage and declared flag as the 5-field one.
C34_DecodersPositional ==
  fn_out # << >> =>
     /\ fn_out.narrow.name = ""
     /\ fn_out.wide.name = fn_in.rec[6]
     /\ fn_out.wide.api_type = fn_in.rec[7]
     /\ fn_out.wide.results_finalized = fn_in.rec[12]
     /\ \A f \in SharedFields : fn_out.narrow[f] = fn_out.wide[f]
     /\ fn_in.kind = "summary" =>
           /\ fn_out.narrow.participant_count = fn_out.wide.participant_count
           /\ fn_out.wide.participant_count = fn_in.rec[13]
     /\ fn_in.kind = "detail" =>
           /\ Len(fn_out.wide.participants) = Len(fn_in.rec[13])
           /\ Len(fn_out.narrow.participants) = Len(fn_in.rec[13])
           /\ \A i \in 1..Len(fn_in.rec[13]) :
                 LET w == fn_out.wide.participants[i]
                     n == fn_out.narrow.participants[i]
                 IN  /\ w.amount = fn_in.rec[13][i][3]
                     /\ w.initial_amount = Some(fn_in.rec[13][i][2])
                     /\ n.initial_amount = None
                     /\ n.amount = w.amount
                     /\ n.participant_address = w.participant_address
                     /\ n.refund_percentage = w.refund_percentage
                     /\ n.result_declared = w.result_declared

\* C34 witness: a named detail record with two participants whose initial
\* amount differs from the amount was decoded in both layouts.
C34_Witness ==
  /\ fn_out # << >> /\ fn_in.kind = "detail" /\ fn_in.rec[6] = "run"
  /\ Len(fn_out.narrow.participants) = 2
  /\ fn_in.rec[13][1][2] # fn_in.rec[13][1][3]

\* every participant of challenge c has a result on-chain
AllDeclaredOnchain(c) ==
  \A i \in 1..Len(chain[c].participants) : chain[c].participants[i].result_declared

\* C35: the job writes the finished_challenges row of a challenge, and
\* deletes its cache rows, only while every participant of the challenge
\* is declared on-chain.
C35_ArchiveOnlyWhenAllDeclared ==
  [][\A c \in Cids :
       (\/ IsArchived(c)' /\ ~ IsArchived(c)
        \/ /\ run.pc \in {"arch_parts", "arch_delchal", "arch_delparts"}
           /\ c = Head(run.ready)
           /\ <<chain_challenges, chain_participants>>'
                 # <<chain_challenges, chain_participants>>)
       => AllDeclaredOnchain(c)]_vars

\* a step that broadcasts a transaction, changes an archive table or
\* removes a cache row
WritesOrBroadcasts ==
  \/ ~ (mempool' \subseteq mempool)
  \/ txSeq' # txSeq
  \/ finished_challenges' # finished_challenges
  \/ finished_participants' # finished_participants
  \/ \E t \in chain_challenges :
        ~ \E u \in chain_challenges' : SameChallenge(t, u)
  \/ \E t \in chain_participants :
        ~ \E u \in chain_participants' : SameParticipant(t, u)

\* C37: a job run with sending disabled broadcasts nothing, writes no
\* finished_challenges or finished_participants row and deletes no cache
\* row: every such step belongs to a run whose send flag is on.
C37_DryRunJobWritesNothing ==
  [][WritesOrBroadcasts => (run.cfg # None /\ Cfg.send)]_vars

\* C37 witness: a run with sending disabled reached its archive decision
\* for a cached challenge whose participants are all declared on-chain.
C37_Witness ==
  /\ run.pc = "finish" /\ run.cfg # None /\ ~ Cfg.send
  /\ run.pending_addrs = {}
  /\ chain_challenges # {} /\ chain_participants # {}

\* the addresses of the participants of challenge c on-chain
OnchainAddrs(c) ==
  {chain[c].participants[i].participant_address :
     i \in 1..Len(chain[c].participants)}

\* C38: the finished_items the job hands to archive_and_cleanup name every
\* on-chain participant of the challenge exactly once: the items of this
\* run, then the participants declared on-chain before, those with
\* percent_ppm = refund bps * 100.
C38_ArchivedParticipantSet ==
  run.pc = "arch_parts" =>
     LET c == Head(run.ready)
         fi == run.finished_items
     IN  /\ {fi[i].user : i \in 1..Len(fi)} = OnchainAddrs(c)
         /\ \A i, j \in 1..Len(fi) : fi[i].user = fi[j].user => i = j
         /\ \A p \in Range(run.declared_onchain) :
               \E i \in 1..Len(fi) :
                  /\ fi[i].user = p.participant_address
                  /\ fi[i].percent_ppm = p.refund_percentage * BPS_DIV
                  /\ fi[i].stake_minor_units = p.amount
         /\ \A i \in 1..Len(fi) :
               \/ \E k \in 1..Len(run.items) : run.items[k] = [fi[i] EXCEPT !.batch_no = None, !.tx_hash = None]
               \/ \E p \in Range(run.declared_onchain) :
                     p.participant_address = fi[i].user

\* C39: a fee dict with EIP-1559 fields has maxPriorityFeePerGas <=
\* maxFeePerGas, whether the cap or the base fee produced it.
C39_PriorityWithinMaxFee ==
  (fn_out # << >> /\ fn_out.params.maxFeePerGas # None) =>
     /\ fn_out.params.maxPriorityFeePerGas # None
     /\ Val(fn_out.params.maxPriorityFeePerGas) <= Val(fn_out.params.maxFeePerGas)

\* the challenge ids of the result entries of the run
ProcessedIds == [i \in 1..Len(run.processed) |-> run.processed[i].challenge_id]

\* C40: the loop of main() makes one entry per listed challenge, in the
\* listed order, whether the challenge ended in an error or not: an error
\* entry is followed by the next listed challenge, and a run that returns
\* has exit code 0 and exactly one entry per listed challenge.
C40_ErrorIsolation ==
  /\ run.pc \notin {"idle", "details"} => ProcessedIds \o run.ready = run.listed
  /\ run.exit_code # None =>
        /\ run.exit_code = Some(0)
        /\ ProcessedIds = run.listed
  /\ \A i, j \in 1..Len(run.listed) : run.listed[i] = run.listed[j] => i = j

\* C40 witness: a run over two listed challenges returned 0 with an error
\* entry for the first and an archived second.
C40_Witness ==
  /\ run.exit_code = Some(0)
  /\ Len(run.listed) = 2 /\ Len(run.processed) = 2
  /\ run.processed[1].error # None
  /\ run.processed[2].error = None /\ run.processed[2].archived

====
